---- MODULE Spec2Model ----
(***************************************************************************)
(* Model of the notebook "alternative text document" layer of             *)
(* vscode-copilot-chat: AlternativeNotebookCellTextDocument and           *)
(* AlternativeNotebookTextDocument (platform/notebook/common/             *)
(* alternativeNotebookTextDocument.ts), together with the host notebook   *)
(* that feeds it cells, content-change events and structural changes.     *)
(*                                                                         *)
(* Strings are sequences of one-character strings.  Offsets are 0-based   *)
(* as in the source; TLA+ sequences are 1-based, so character i of the    *)
(* source is element i + 1 here.                                           *)
(***************************************************************************)
EXTENDS Integers, Sequences, FiniteSets, TLC

VARIABLES
    notebook,   \* the host NotebookDocument: its cells, in order (cell ids)
    docs,       \* the host TextDocument of every cell: its lines
    altDoc,     \* the current AlternativeNotebookTextDocument snapshot
    last,       \* what the last call returned, as the tests observe it
    translator, \* a CrLfOffsetTranslator: its text and the last query made
    stream,     \* a stream operation of AsyncStreamUtils that is running
    terminalService, \* the window's terminals and the TerminalServiceImpl
    codex,      \* a CodexClient, a chat request to it, or its model server
    textDocument \* an OffsetBasedTextDocument and its cached converter

vars == <<notebook, docs, altDoc, last, translator, stream, terminalService,
          codex, textDocument>>

\* the notebook and its projection
notebookVars == <<notebook, docs, altDoc, last>>

\* what the calls on a notebook's projection leave alone
others == <<translator, stream, terminalService, codex, textDocument>>

\* what a translator, a stream operation and the terminal service leave
\* alone
exceptTranslator ==
    <<notebookVars, stream, terminalService, codex, textDocument>>
exceptStream ==
    <<notebookVars, translator, terminalService, codex, textDocument>>
exceptTerminalService ==
    <<notebookVars, translator, stream, codex, textDocument>>
exceptCodex ==
    <<notebookVars, translator, stream, terminalService, textDocument>>
exceptTextDocument ==
    <<notebookVars, translator, stream, terminalService, codex>>

\* no translator is under study and no stream operation is running
NoTranslator == [text |-> <<>>, queried |-> FALSE, offset |-> 0, result |-> 0]
NoStream == [op |-> "none"]
NoTerminalService == [op |-> "none"]
NoCodex == [op |-> "none"]
NoTextDocument == [op |-> "none"]
NoOthers ==
    /\ translator = NoTranslator
    /\ stream = NoStream
    /\ terminalService = NoTerminalService
    /\ codex = NoCodex
    /\ textDocument = NoTextDocument

----------------------------------------------------------------------------
(* Bounds of the model *)

\* the cell documents of the host hold at most this many characters in all,
\* a line break counted as one
MaxChars == 2

\* a snapshot holds at most this many entries
MaxEntries == 3

----------------------------------------------------------------------------
(* Characters and strings *)

LF == "\n"
CR == "\r"

\* helpers.EOL: the canonical line break of the alternative text
EOL == <<LF>>

Min(a, b) == IF a < b THEN a ELSE b
Max(a, b) == IF a > b THEN a ELSE b

\* String.prototype.substring(a, b): both ends clamped to [0, length],
\* swapped when a > b
Substring(s, a, b) ==
    LET ca == Max(0, Min(a, Len(s)))
        cb == Max(0, Min(b, Len(s)))
    IN  SubSeq(s, Min(ca, cb) + 1, Max(ca, cb))

\* Array.prototype.join
RECURSIVE Join(_, _)
Join(strs, sep) ==
    IF strs = <<>> THEN <<>>
    ELSE IF Len(strs) = 1 THEN strs[1]
    ELSE strs[1] \o sep \o Join(Tail(strs), sep)

\* s.replace(/\r\n|\n/g, EOL): a CR LF pair or a lone LF becomes EOL, every
\* other character (a lone CR included) is copied
RECURSIVE ReplaceEOL(_)
ReplaceEOL(s) ==
    IF s = <<>> THEN <<>>
    ELSE IF Len(s) >= 2 /\ s[1] = CR /\ s[2] = LF
         THEN EOL \o ReplaceEOL(SubSeq(s, 3, Len(s)))
    ELSE IF s[1] = LF THEN EOL \o ReplaceEOL(Tail(s))
    ELSE <<s[1]>> \o ReplaceEOL(Tail(s))

\* does s contain the two-character sequence CR LF
HasCRLF(s) == \E i \in 1..(Len(s) - 1) : s[i] = CR /\ s[i + 1] = LF

----------------------------------------------------------------------------
(* The host: notebook cells and their text documents *)

\* The cells the host can show: two code cells with different line endings
\* and a markup cell, as in the tests' notebooks.
Cells == <<[kind |-> "Code",   eol |-> "LF"],
           [kind |-> "Code",   eol |-> "CRLF"],
           [kind |-> "Markup", eol |-> "LF"]>>

CellIds == DOMAIN Cells

CellKind(c) == Cells[c].kind

\* the line break of a cell's document (TextDocument.eol)
DocEol(c) == IF Cells[c].eol = "CRLF" THEN <<CR, LF>> ELSE <<LF>>

\* TextDocument.getText(): the lines joined by the document's line break
getText(c, lines) == Join(lines, DocEol(c))

\* the text of a document with every line break counted as one character
NormText(lines) == Join(lines, <<LF>>)

\* A document splits the text it is given into lines at CR LF, CR and LF.
RECURSIVE SplitLines(_, _)
SplitLines(s, cur) ==
    IF s = <<>> THEN <<cur>>
    ELSE IF Len(s) >= 2 /\ s[1] = CR /\ s[2] = LF
         THEN <<cur>> \o SplitLines(SubSeq(s, 3, Len(s)), <<>>)
    ELSE IF s[1] = CR \/ s[1] = LF THEN <<cur>> \o SplitLines(Tail(s), <<>>)
    ELSE SplitLines(Tail(s), Append(cur, s[1]))

\* offset of the start of line `line` (0-based) in the document's own text
RECURSIVE LinesLen(_, _, _)
LinesLen(lines, n, eolLen) ==
    IF n = 0 THEN 0
    ELSE Len(lines[n]) + eolLen + LinesLen(lines, n - 1, eolLen)

\* TextDocument.offsetAt(position) in the document's own (raw) text
RawOffsetAt(c, lines, pos) ==
    LinesLen(lines, pos.line, Len(DocEol(c))) + pos.character

\* the same position in the text with one character per line break
NormOffsetAt(lines, pos) == LinesLen(lines, pos.line, 1) + pos.character

\* the valid positions and ranges of a document
Positions(lines) ==
    UNION {{[line |-> l, character |-> ch] : ch \in 0..Len(lines[l + 1])} :
              l \in 0..(Len(lines) - 1)}

PosLE(p, q) == p.line < q.line \/ (p.line = q.line /\ p.character <= q.character)

\* new Range(start, end): the two positions in order, swapped when the
\* start is after the end
Range(start, end) ==
    IF PosLE(start, end) THEN [start |-> start, end |-> end]
    ELSE [start |-> end, end |-> start]

Ranges(lines) ==
    {r \in [start : Positions(lines), end : Positions(lines)] :
        PosLE(r.start, r.end)}

\* TextDocument.getText(range)
RangeText(c, lines, r) ==
    Substring(getText(c, lines), RawOffsetAt(c, lines, r.start),
              RawOffsetAt(c, lines, r.end))

----------------------------------------------------------------------------
(* PositionOffsetTransformer (platform/editing/common) *)

\* the offsets at which a line starts after position i of str, in order
RECURSIVE LineStartsFrom(_, _)
LineStartsFrom(str, i) ==
    IF i > Len(str) THEN <<>>
    ELSE IF str[i] = LF THEN <<i>> \o LineStartsFrom(str, i + 1)
    ELSE LineStartsFrom(str, i + 1)

\* the increasing array of line-start offsets, built at construction
lineStartOffsetByLineIdx(str) == <<0>> \o LineStartsFrom(str, 1)

getLineCount(str) == Len(lineStartOffsetByLineIdx(str))

\* length of line `line` (0-based), its line break not counted
getLineLength(str, line) ==
    LET starts == lineStartOffsetByLineIdx(str)
    IN  IF line + 1 < Len(starts)
        THEN starts[line + 2] - 1 - starts[line + 1]
        ELSE Len(str) - starts[line + 1]

\* a line past the last one becomes the end of the last line, a column past
\* the end of its line becomes the end of that line
validatePosition(str, pos) ==
    LET lineCount == getLineCount(str)
    IN  IF pos.line < 0 THEN [line |-> 0, character |-> 0]
        ELSE IF pos.line >= lineCount
             THEN [line |-> lineCount - 1,
                   character |-> getLineLength(str, lineCount - 1)]
        ELSE [line |-> pos.line,
              character |-> Max(0, Min(pos.character,
                                       getLineLength(str, pos.line)))]

getOffset(str, pos) ==
    LET valPos == validatePosition(str, pos)
    IN  lineStartOffsetByLineIdx(str)[valPos.line + 1] + valPos.character

\* findLastIdxMonotonous(arr, v => v <= x) over an increasing array, as a
\* 0-based index; -1 when no element qualifies
FindLastIdxLE(arr, x) ==
    LET S == {i \in 1..Len(arr) : arr[i] <= x}
    IN  IF S = {} THEN -1 ELSE (CHOOSE i \in S : \A j \in S : j <= i) - 1

\* the line is the last one starting at or before the offset; the column is
\* kept within the line, so an offset on or past the line break (or past
\* the end of the text) is the end of the line
getPosition(str, offset) ==
    LET starts == lineStartOffsetByLineIdx(str)
        idx == FindLastIdxLE(starts, offset)
    IN  [line |-> idx,
         character |-> Min(offset - starts[idx + 1], getLineLength(str, idx))]

----------------------------------------------------------------------------
(* CrLfOffsetTranslator (platform/notebook/common/offsetTranslator) *)

\* the offsets of the CR of every CR LF pair of the text
CrLfOffsets(text) ==
    {i \in 0..(Len(text) - 2) : text[i + 1] = CR /\ text[i + 2] = LF}

\* a translator that leaves out the pairs lying entirely before the offset
\* only: the offset of the LF of a pair stays inside the pair
translateInsidePair(text, offset) ==
    offset - Cardinality({i \in CrLfOffsets(text) : i + 2 <= offset})

\* a translator that adds the pairs before the offset instead
translateAddingPairs(text, offset) ==
    offset + Cardinality({i \in CrLfOffsets(text) : i < offset})

\* an offset into the text becomes the offset into the text with every
\* CR LF pair counted as one character
translate(text, offset) ==
    offset - Cardinality({i \in CrLfOffsets(text) : i < offset})

----------------------------------------------------------------------------
(* StringEdit (util/vs/editor/common/core/edits/stringEdit) *)

\* StringReplacement: replaceRange [start, endExclusive) and newText.
\* A StringEdit is held as its replacements in application order; composing
\* appends, and applying applies them one after the other.
StringReplacement(start, endExclusive, newText) ==
    [start |-> start, endExclusive |-> endExclusive, newText |-> newText]

EmptyEdit == <<>>

compose(edit, other) == edit \o other

applyReplacement(r, base) ==
    Substring(base, 0, r.start) \o r.newText
        \o Substring(base, r.endExclusive, Len(base))

RECURSIVE apply(_, _)
apply(edit, base) ==
    IF edit = <<>> THEN base
    ELSE apply(Tail(edit), applyReplacement(Head(edit), base))

\* edit.ts: one replacement per content change, [rangeOffset, rangeOffset +
\* rangeLength) -> text, composed in the order of the events
stringEditFromTextContentChange(events) ==
    [i \in 1..Len(events) |->
        StringReplacement(events[i].rangeOffset,
                          events[i].rangeOffset + events[i].rangeLength,
                          events[i].text)]

----------------------------------------------------------------------------
(* AlternativeNotebookCellTextDocument: the projection of one cell *)

\* getLineCommentStart(notebook) and getBlockComment(notebook)
lineCommentStart == <<"#">>
blockComment == << <<"<">>, <<">">> >>

\* generateCellTextMarker(summarize(cell), lineCommentStart): one line that
\* names the cell
CellName == <<"1", "2", "3">>
generateCellTextMarker(c) == lineCommentStart \o <<CellName[c]>>

\* the constructor: the fields it is given, and the CrLfOffsetTranslator it
\* builds from the text the cell's document has at that moment
AltCell(c, code, prefix, suffix, docLines) ==
    [cell |-> c, code |-> code, prefix |-> prefix, suffix |-> suffix,
     crlfText |-> getText(c, docLines)]

fromNotebookCell(c, docLines) ==
    LET cellMarker == generateCellTextMarker(c)
        code == ReplaceEOL(getText(c, docLines))
        prefix == IF CellKind(c) = "Markup"
                  THEN cellMarker \o EOL \o blockComment[1] \o EOL
                  ELSE cellMarker \o EOL
        suffix == IF CellKind(c) = "Markup"
                  THEN EOL \o blockComment[2] ELSE <<>>
    IN  AltCell(c, code, prefix, suffix, docLines)

\* get altText(): the text of the cell's positionTransformer
cellAltText(ac) == ac.prefix \o ac.code \o ac.suffix

cellLineCount(ac) == getLineCount(cellAltText(ac))

\* the lines added before the cell's own text: the marker, and for a markup
\* cell the opening block comment
\* the count of a code cell taken for every cell
extraLinesAddedOfCode(ac) == 1

extraLinesAdded(ac) == IF CellKind(ac.cell) = "Markup" THEN 2 ELSE 1

cellToAltRange(ac, range) ==
    Range([line |-> range.start.line + extraLinesAdded(ac),
           character |-> range.start.character],
          [line |-> range.end.line + extraLinesAdded(ac),
           character |-> range.end.character])

cellToAltOffsetRange(ac, range) ==
    LET startOffset == getOffset(cellAltText(ac),
                          [line |-> range.start.line + extraLinesAdded(ac),
                           character |-> range.start.character])
        endOffset == getOffset(cellAltText(ac),
                          [line |-> range.end.line + extraLinesAdded(ac),
                           character |-> range.end.character])
    IN  [start |-> startOffset, endExclusive |-> endOffset]

\* fromAltOffsetRange that leaves the added lines in the line numbers
cellFromAltOffsetRangeWithAddedLines(ac, offsetRange) ==
    LET startPosition == getPosition(cellAltText(ac), offsetRange.start)
        endPosition == getPosition(cellAltText(ac), offsetRange.endExclusive)
    IN  Range(startPosition, endPosition)

cellFromAltOffsetRange(ac, offsetRange) ==
    LET startPosition == getPosition(cellAltText(ac), offsetRange.start)
        endPosition == getPosition(cellAltText(ac), offsetRange.endExclusive)
        startLine == Max(startPosition.line - extraLinesAdded(ac), 0)
        endLine == Max(endPosition.line - extraLinesAdded(ac), 0)
        lastPosition == getPosition(cellAltText(ac), Len(cellAltText(ac)))
        endLineEndColumn ==
            IF endLine = cellLineCount(ac) - extraLinesAdded(ac)
               /\ lastPosition.character < endPosition.character
            THEN lastPosition.character
            ELSE endPosition.character
    IN  Range([line |-> startLine, character |-> startPosition.character],
              [line |-> endLine, character |-> endLineEndColumn])

\* normalizeEdits that takes the offsets of the document's own text as they
\* are, CR LF counted as two characters
normalizeEditsRawOffsets(ac, edits) ==
    [i \in 1..Len(edits) |->
        LET e == edits[i]
        IN  [range |-> cellToAltRange(ac, e.range),
             rangeLength |-> e.rangeLength,
             rangeOffset |-> e.rangeOffset,
             text |-> ReplaceEOL(e.text)]]

\* a content change of the cell's document as a change of `code`: the range
\* moved down by the added lines, the offsets through the translator, the
\* text with its line breaks normalised
normalizeEdits(ac, edits) ==
    [i \in 1..Len(edits) |->
        LET e == edits[i]
            rangeOffset == translate(ac.crlfText, e.rangeOffset)
            endOffset == translate(ac.crlfText, e.rangeOffset + e.rangeLength)
        IN  [range |-> cellToAltRange(ac, e.range),
             rangeLength |-> endOffset - rangeOffset,
             rangeOffset |-> rangeOffset,
             text |-> ReplaceEOL(e.text)]]

\* a new projection of the same cell with the edit applied to `code`; its
\* translator is built from the text the document has now
withTextEdit(ac, edit, docLines) ==
    AltCell(ac.cell, apply(edit, ac.code), ac.prefix, ac.suffix, docLines)

----------------------------------------------------------------------------
(* AlternativeNotebookTextDocument: the projection of the notebook *)

\* cellsBuilder: every cell's start line and start offset, an EOL counted
\* between two cells
RECURSIVE cellsBuilderFrom(_, _, _)
cellsBuilderFrom(altCells, lineCount, offset) ==
    IF altCells = <<>> THEN <<>>
    ELSE <<[altCell |-> Head(altCells), startLine |-> lineCount,
            startOffset |-> offset]>>
         \o cellsBuilderFrom(Tail(altCells),
                lineCount + cellLineCount(Head(altCells)),
                offset + Len(cellAltText(Head(altCells))) + Len(EOL))

cellsBuilder(altCells) == cellsBuilderFrom(altCells, 0, 0)

\* the private constructor
AltDoc(excludeMarkdownCells, altCells) ==
    [excludeMarkdownCells |-> excludeMarkdownCells, altCells |-> altCells]

\* notebook.getCells().filter(...)
RECURSIVE FilterCells(_, _)
FilterCells(cells, excludeMarkdownCells) ==
    IF cells = <<>> THEN <<>>
    ELSE IF ~excludeMarkdownCells \/ CellKind(Head(cells)) # "Markup"
         THEN <<Head(cells)>> \o FilterCells(Tail(cells), excludeMarkdownCells)
    ELSE FilterCells(Tail(cells), excludeMarkdownCells)

\* create that keeps every cell of the notebook
createAllCells(cells, documents, excludeMarkdownCells) ==
    AltDoc(excludeMarkdownCells,
           cellsBuilder([i \in 1..Len(cells) |->
                            fromNotebookCell(cells[i], documents[cells[i]])]))

create(cells, documents, excludeMarkdownCells) ==
    LET notebookCells == FilterCells(cells, excludeMarkdownCells)
        altCells == cellsBuilder(
            [i \in 1..Len(notebookCells) |->
                fromNotebookCell(notebookCells[i], documents[notebookCells[i]])])
    IN  AltDoc(excludeMarkdownCells, altCells)

withoutMDCells(cells, documents) == create(cells, documents, TRUE)

\* the alt text of each cell, in order
AltTexts(entries) == [i \in 1..Len(entries) |-> cellAltText(entries[i].altCell)]

altText(doc) == Join(AltTexts(doc.altCells), EOL)

getAltText(doc) == altText(doc)

getAltTextInRange(doc, range) ==
    Substring(altText(doc), range.start, range.endExclusive)

\* getCell(textDocument): the cells registered by the constructor
HasCell(doc, c) == \E i \in 1..Len(doc.altCells) : doc.altCells[i].altCell.cell = c

\* index of the first entry of the cell (the document is the cell's own)
FirstEntryOf(doc, c) ==
    CHOOSE i \in 1..Len(doc.altCells) :
        /\ doc.altCells[i].altCell.cell = c
        /\ \A j \in 1..(i - 1) : doc.altCells[j].altCell.cell # c

\* the sum of the lengths the loop passes before it finds the cell
RECURSIVE OffsetBefore(_, _)
OffsetBefore(entries, n) ==
    IF n = 0 THEN 0
    ELSE OffsetBefore(entries, n - 1)
         + Len(cellAltText(entries[n].altCell)) + Len(EOL)

\* toAltOffsetRange that does not count the EOL between two cells
toAltOffsetRangeNoEOL(doc, c, ranges) ==
    IF ~HasCell(doc, c) THEN <<>>
    ELSE LET k == FirstEntryOf(doc, c)
             offset == OffsetBefore(doc.altCells, k - 1) - (k - 1) * Len(EOL)
         IN  [i \in 1..Len(ranges) |->
                LET offsetRange == cellToAltOffsetRange(doc.altCells[k].altCell,
                                                        ranges[i])
                IN  [start |-> offset + offsetRange.start,
                     endExclusive |-> offset + offsetRange.endExclusive]]

toAltOffsetRange(doc, c, ranges) ==
    IF ~HasCell(doc, c) THEN <<>>
    ELSE LET k == FirstEntryOf(doc, c)
             offset == OffsetBefore(doc.altCells, k - 1)
         IN  [i \in 1..Len(ranges) |->
                LET offsetRange == cellToAltOffsetRange(doc.altCells[k].altCell,
                                                        ranges[i])
                IN  [start |-> offset + offsetRange.start,
                     endExclusive |-> offset + offsetRange.endExclusive]]

\* toAltRange that leaves out the start line of the cell's entry
toAltRangeNoStartLine(doc, c, ranges) ==
    IF ~HasCell(doc, c) THEN <<>>
    ELSE LET k == FirstEntryOf(doc, c)
         IN  [i \in 1..Len(ranges) |->
                cellToAltRange(doc.altCells[k].altCell, ranges[i])]

toAltRange(doc, c, ranges) ==
    IF ~HasCell(doc, c) THEN <<>>
    ELSE LET k == FirstEntryOf(doc, c)
             startLine == doc.altCells[k].startLine
         IN  [i \in 1..Len(ranges) |->
                LET altCellRange == cellToAltRange(doc.altCells[k].altCell,
                                                   ranges[i])
                IN  Range([line |-> altCellRange.start.line + startLine,
                           character |-> altCellRange.start.character],
                          [line |-> altCellRange.end.line + startLine,
                           character |-> altCellRange.end.character])]

\* the pairs the loop pushes for entries i..n, firstIdx being the entry the
\* range starts in (all 1-based here)
RECURSIVE FromAltLoop(_, _, _, _)
FromAltLoop(doc, offsetRange, firstIdx, i) ==
    IF i > Len(doc.altCells) THEN <<>>
    ELSE LET altCell == doc.altCells[i].altCell
             startOffset == doc.altCells[i].startOffset
             pushed ==
                IF i = firstIdx
                THEN <<[cell |-> altCell.cell,
                        range |-> cellFromAltOffsetRange(altCell,
                            [start |-> offsetRange.start - startOffset,
                             endExclusive |-> offsetRange.endExclusive - startOffset])]>>
                ELSE IF startOffset + Len(cellAltText(altCell))
                            < offsetRange.endExclusive
                THEN <<[cell |-> altCell.cell,
                        range |-> cellFromAltOffsetRange(altCell,
                            [start |-> 0,
                             endExclusive |-> Len(cellAltText(altCell))])]>>
                ELSE IF startOffset < offsetRange.endExclusive
                THEN <<[cell |-> altCell.cell,
                        range |-> cellFromAltOffsetRange(altCell,
                            [start |-> 0,
                             endExclusive |-> offsetRange.endExclusive - startOffset])]>>
                ELSE <<>>
         IN  pushed \o FromAltLoop(doc, offsetRange, firstIdx, i + 1)

\* the result is undefined when no entry starts at or before the range
fromAltOffsetRange(doc, offsetRange) ==
    LET firstIdx == FindLastIdxLE(
                        [i \in 1..Len(doc.altCells) |-> doc.altCells[i].startOffset],
                        offsetRange.start)
    IN  IF firstIdx = -1 THEN [undefined |-> TRUE, cells |-> <<>>]
        ELSE [undefined |-> FALSE,
              cells |-> FromAltLoop(doc, offsetRange, firstIdx + 1, firstIdx + 1)]

----------------------------------------------------------------------------
(* Changes: every call returns a new snapshot and the edit of the alt text *)

\* Array.prototype.slice(start, end) and splice(start, deleteCount, ...items)
\* with 0-based indices, clamped to the array like the originals
Slice(arr, start, end) == SubSeq(arr, Min(start, Len(arr)) + 1, Min(end, Len(arr)))

Splice(arr, start, deleteCount, items) ==
    LET st == Min(start, Len(arr))
        dc == Max(0, Min(deleteCount, Len(arr) - st))
    IN  SubSeq(arr, 1, st) \o items \o SubSeq(arr, st + dc + 1, Len(arr))

\* reading altCells[firstUnChangedCellIndex].startOffset of an entry that
\* does not exist throws a TypeError
EventThrows(altCells, event) ==
    event.range.start # 0 /\ event.range.start - 1 >= Len(altCells)

\* the same pass with the spliced entries kept as they are, the start lines
\* and start offsets not computed again
NotebookEventEditNoRebuild(altCells, event, documents) ==
    LET newCells == [i \in 1..Len(event.addedCells) |->
                        [altCell |-> fromNotebookCell(event.addedCells[i],
                                        documents[event.addedCells[i]]),
                         startLine |-> 0, startOffset |-> 0]]
    IN  [replacement |-> StringReplacement(0, 0, <<>>),
         altCells |-> Splice(altCells, event.range.start,
                             event.range.end - event.range.start, newCells)]

\* one pass of the loop over the events: the replacement of the alt text for
\* this event and the entries after it
NotebookEventEdit(altCells, event, documents) ==
    LET newCells == [i \in 1..Len(event.addedCells) |->
                        [altCell |-> fromNotebookCell(event.addedCells[i],
                                        documents[event.addedCells[i]]),
                         startLine |-> 0, startOffset |-> 0]]
        removedCells == Slice(altCells, event.range.start, event.range.end)
        firstUnChangedCellIndex ==
            IF event.range.start = 0 THEN -1 ELSE event.range.start - 1
        startOffset ==
            IF firstUnChangedCellIndex = -1 THEN 0
            ELSE altCells[firstUnChangedCellIndex + 1].startOffset
                 + Len(cellAltText(altCells[firstUnChangedCellIndex + 1].altCell))
                 + Len(EOL)
        offsetLength0 == Len(Join(AltTexts(removedCells), EOL))
        newCellsContent0 == Join(AltTexts(newCells), EOL)
        cellsAfter == event.range.end < Len(altCells)
        newCellsContent1 ==
            IF startOffset # 0 /\ ~cellsAfter
            THEN EOL \o newCellsContent0 ELSE newCellsContent0
        newCellsContent ==
            IF cellsAfter /\ newCellsContent1 # <<>>
            THEN newCellsContent1 \o EOL ELSE newCellsContent1
        offsetLength ==
            IF cellsAfter /\ offsetLength0 # 0
            THEN offsetLength0 + Len(EOL) ELSE offsetLength0
        spliced == Splice(altCells, event.range.start,
                          event.range.end - event.range.start, newCells)
    IN  [replacement |-> StringReplacement(startOffset,
                             startOffset + offsetLength, newCellsContent),
         altCells |-> cellsBuilder(
             [i \in 1..Len(spliced) |-> spliced[i].altCell])]

RECURSIVE NotebookEventsLoop(_, _, _, _)
NotebookEventsLoop(altCells, edit, events, documents) ==
    IF events = <<>> THEN [threw |-> FALSE, altCells |-> altCells, edit |-> edit]
    ELSE IF EventThrows(altCells, Head(events))
    THEN [threw |-> TRUE, altCells |-> altCells, edit |-> edit]
    ELSE LET step == NotebookEventEdit(altCells, Head(events), documents)
         IN  NotebookEventsLoop(step.altCells,
                                compose(edit, <<step.replacement>>),
                                Tail(events), documents)

\* [new snapshot, edit]; the edit is undefined when there are no events;
\* `threw` when the call ends in an exception and returns nothing
withNotebookChangesAndEdit(doc, events, documents) ==
    IF events = <<>>
    THEN [threw |-> FALSE, doc |-> doc, hasEdit |-> FALSE, edit |-> EmptyEdit]
    ELSE LET r == NotebookEventsLoop(doc.altCells, EmptyEdit, events, documents)
         IN  [threw |-> r.threw,
              doc |-> IF r.threw THEN doc
                      ELSE AltDoc(doc.excludeMarkdownCells, r.altCells),
              hasEdit |-> ~r.threw,
              edit |-> IF r.threw THEN EmptyEdit ELSE r.edit]

\* toAltCellTextDocumentContentChangeEvents that passes the events of a
\* document of no cell of the snapshot on as they are
toAltCellTextDocumentContentChangeEventsNoLookup(doc, c, events) ==
    IF ~HasCell(doc, c)
    THEN [i \in 1..Len(events) |->
            [events[i] EXCEPT !.text = ReplaceEOL(events[i].text)]]
    ELSE [i \in 1..Len(events) |->
            LET e == events[i]
                range == toAltRange(doc, c, <<e.range>>)[1]
                rangeOffset == toAltOffsetRange(doc, c, <<e.range>>)[1]
            IN  [range |-> range,
                 rangeLength |-> rangeOffset.endExclusive - rangeOffset.start,
                 rangeOffset |-> rangeOffset.start,
                 text |-> ReplaceEOL(e.text)]]

\* toAltCellTextDocumentContentChangeEvents that keeps the text of a change
\* as the host delivers it
toAltCellTextDocumentContentChangeEventsRawText(doc, c, events) ==
    IF ~HasCell(doc, c) THEN <<>>
    ELSE [i \in 1..Len(events) |->
            LET e == events[i]
                range == toAltRange(doc, c, <<e.range>>)[1]
                rangeOffset == toAltOffsetRange(doc, c, <<e.range>>)[1]
            IN  [range |-> range,
                 rangeLength |-> rangeOffset.endExclusive - rangeOffset.start,
                 rangeOffset |-> rangeOffset.start,
                 text |-> e.text]]

\* the content changes of a cell's document as content changes of the alt
\* text; every event is dropped when the document is of no cell of the
\* snapshot
toAltCellTextDocumentContentChangeEvents(doc, c, events) ==
    IF ~HasCell(doc, c) THEN <<>>
    ELSE [i \in 1..Len(events) |->
            LET e == events[i]
                range == toAltRange(doc, c, <<e.range>>)[1]
                rangeOffset == toAltOffsetRange(doc, c, <<e.range>>)[1]
            IN  [range |-> range,
                 rangeLength |-> rangeOffset.endExclusive - rangeOffset.start,
                 rangeOffset |-> rangeOffset.start,
                 text |-> ReplaceEOL(e.text)]]

editFromNotebookCellTextDocumentContentChangeEvents(doc, c, events) ==
    stringEditFromTextContentChange(
        toAltCellTextDocumentContentChangeEvents(doc, c, events))

\* withCellChanges that keeps the start line and start offset the entries
\* had before the change
withCellChangesOldIndex(doc, c, events, documents) ==
    IF events = <<>> THEN doc
    ELSE IF ~HasCell(doc, c) THEN doc
    ELSE LET cell == doc.altCells[FirstEntryOf(doc, c)]
             cellEdit == stringEditFromTextContentChange(
                             normalizeEdits(cell.altCell, events))
         IN  AltDoc(doc.excludeMarkdownCells,
                 [i \in 1..Len(doc.altCells) |->
                    IF doc.altCells[i].altCell.cell = c
                    THEN [doc.altCells[i] EXCEPT
                            !.altCell = withTextEdit(doc.altCells[i].altCell,
                                                     cellEdit, documents[c])]
                    ELSE doc.altCells[i]])

\* withCellChanges that applies the edit to the projection of every cell
withCellChangesEveryCell(doc, c, events, documents) ==
    IF events = <<>> THEN doc
    ELSE IF ~HasCell(doc, c) THEN doc
    ELSE LET cell == doc.altCells[FirstEntryOf(doc, c)]
             cellEdit == stringEditFromTextContentChange(
                             normalizeEdits(cell.altCell, events))
         IN  AltDoc(doc.excludeMarkdownCells,
                 cellsBuilder(
                     [i \in 1..Len(doc.altCells) |->
                        withTextEdit(doc.altCells[i].altCell, cellEdit,
                                     documents[c])]))

\* withCellChanges called with content-change events
withCellChanges(doc, c, events, documents) ==
    IF events = <<>> THEN doc
    ELSE IF ~HasCell(doc, c) THEN doc
    ELSE LET cell == doc.altCells[FirstEntryOf(doc, c)]
             cellEdit == stringEditFromTextContentChange(
                             normalizeEdits(cell.altCell, events))
         IN  AltDoc(doc.excludeMarkdownCells,
                 cellsBuilder(
                     [i \in 1..Len(doc.altCells) |->
                        IF doc.altCells[i].altCell.cell = c
                        THEN withTextEdit(doc.altCells[i].altCell, cellEdit,
                                          documents[c])
                        ELSE doc.altCells[i].altCell]))

withCellChangesAndEdit(doc, c, events, documents) ==
    IF events = <<>>
    THEN [doc |-> doc, hasEdit |-> FALSE, edit |-> EmptyEdit]
    ELSE [doc |-> withCellChanges(doc, c, events, documents),
          hasEdit |-> TRUE,
          edit |-> editFromNotebookCellTextDocumentContentChangeEvents(
                       doc, c, events)]

----------------------------------------------------------------------------
(* The host and the calls it makes *)

\* the strings of length n over an alphabet
RECURSIVE Strings(_, _)
Strings(alphabet, n) ==
    IF n = 0 THEN {<<>>}
    ELSE {Append(t, ch) : t \in Strings(alphabet, n - 1), ch \in alphabet}

\* the texts a cell's document starts with
InitTexts == UNION {Strings({"a", LF}, n) : n \in 0..MaxChars}

RECURSIVE SumChars(_, _)
SumChars(documents, n) ==
    IF n = 0 THEN 0
    ELSE Len(NormText(documents[n])) + SumChars(documents, n - 1)

TotalChars(documents) == SumChars(documents, Len(Cells))

\* sequences of distinct cells
RECURSIVE Arrangements(_)
Arrangements(cells) ==
    {<<>>} \cup UNION {{<<c>> \o rest : rest \in Arrangements(cells \ {c})} :
                         c \in cells}

CodeCells == {c \in CellIds : CellKind(c) = "Code"}

\* the texts a content change inserts: nothing, a character, a line break
\* as LF or as CR LF, a line break and a character
ChangeTexts == {<<>>, <<"x">>, <<LF>>, <<CR, LF>>, <<LF, "x">>}

\* text with a CR that is not part of a CR LF pair
LoneCRTexts == {<<CR>>, <<"x", CR>>}

\* the document after the host replaced a range by a text: the text takes
\* the document's line break and the lines are split again
HostReplace(c, lines, range, text) ==
    LET raw == getText(c, lines)
        inserted == Join(SplitLines(text, <<>>), DocEol(c))
    IN  SplitLines(Substring(raw, 0, RawOffsetAt(c, lines, range.start))
                       \o inserted
                       \o Substring(raw, RawOffsetAt(c, lines, range.end), Len(raw)),
                   <<>>)

\* the TextDocumentContentChangeEvent the host reports for it, in the
\* coordinates of the document before the change
ContentChange(c, lines, range, text) ==
    [range |-> range,
     rangeOffset |-> RawOffsetAt(c, lines, range.start),
     rangeLength |-> RawOffsetAt(c, lines, range.end)
                        - RawOffsetAt(c, lines, range.start),
     text |-> text]

InNotebook(c) == \E i \in 1..Len(notebook) : notebook[i] = c

\* what a test keeps of a call: the operation, the cell whose document
\* changed (as a set, empty when none did), whether the call threw, and
\* edit.apply(altDoc.getAltText()) for the edit it returned and the snapshot
\* it was called on; `inRange`: a structural change addressed entries of
\* that snapshot
Observed(op, changed, threw, edit, oldDoc, inRange) ==
    [op |-> op, changed |-> changed, threw |-> threw,
     applied |-> apply(edit, getAltText(oldDoc)), inRange |-> inRange]

TypeOK ==
    /\ notebook \in Arrangements(CellIds)
    /\ DOMAIN docs = CellIds
    /\ TotalChars(docs) <= MaxChars

\* a notebook of code cells is opened and its snapshot is created
Init ==
    /\ notebook \in Arrangements(CodeCells)
    /\ docs \in [CellIds -> {SplitLines(t, <<>>) : t \in InitTexts}]
    /\ TotalChars(docs) <= MaxChars
    /\ altDoc = withoutMDCells(notebook, docs)
    /\ last = Observed("create", {}, FALSE, EmptyEdit, altDoc, TRUE)
    /\ NoOthers

\* a notebook with any cells, markup cells included, is opened; every cell
\* is empty or holds one character
InitMD ==
    /\ notebook \in Arrangements(CellIds)
    /\ docs \in [CellIds -> {SplitLines(t, <<>>) : t \in {<<>>, <<"a">>}}]
    /\ TotalChars(docs) <= MaxChars
    /\ altDoc = withoutMDCells(notebook, docs)
    /\ last = Observed("create", {}, FALSE, EmptyEdit, altDoc, TRUE)
    /\ NoOthers

\* the host changes the text of a cell and reports one content change
CellChangeWith(texts) ==
    \E c \in CellIds : \E range \in Ranges(docs[c]) : \E text \in texts :
        LET newLines == HostReplace(c, docs[c], range, text)
            newDocs == [docs EXCEPT ![c] = newLines]
            events == <<ContentChange(c, docs[c], range, text)>>
            res == withCellChangesAndEdit(altDoc, c, events, newDocs)
        IN  /\ InNotebook(c)
            /\ TotalChars(newDocs) <= MaxChars
            /\ docs' = newDocs
            /\ altDoc' = res.doc
            /\ last' = Observed("cellChanges", {c}, FALSE, res.edit, altDoc, TRUE)
            /\ UNCHANGED <<notebook, others>>

CellChange == CellChangeWith(ChangeTexts)

CellChangeLoneCR == CellChangeWith(LoneCRTexts)

\* the host changes two separate ranges of a cell at once; both changes are
\* in the coordinates of the document before them and the one further down
\* the document is reported first
CellChanges2 ==
    \E c \in CellIds : \E r1, r2 \in Ranges(docs[c]) :
    \E t1, t2 \in ChangeTexts :
        LET lines1 == HostReplace(c, docs[c], r2, t2)
            newLines == HostReplace(c, lines1, r1, t1)
            newDocs == [docs EXCEPT ![c] = newLines]
            events == <<ContentChange(c, docs[c], r2, t2),
                        ContentChange(c, docs[c], r1, t1)>>
            res == withCellChangesAndEdit(altDoc, c, events, newDocs)
        IN  /\ InNotebook(c)
            /\ PosLE(r1.end, r2.start) /\ r1.end # r2.start
            /\ TotalChars(newDocs) <= MaxChars
            /\ docs' = newDocs
            /\ altDoc' = res.doc
            /\ last' = Observed("cellChanges", {c}, FALSE, res.edit, altDoc, TRUE)
            /\ UNCHANGED <<notebook, others>>

\* a NotebookDocumentContentChange: the cells of `range` are removed and
\* `addedCells` take their place
NotebookEvent(start, end, addedCells) ==
    [range |-> [start |-> start, end |-> end], addedCells |-> addedCells]

EventInRange(doc, event) == event.range.end <= Len(doc.altCells)

\* the host removes and/or inserts cells and reports one structural change
NotebookChangeWith(cells) ==
    \E start \in 0..Len(notebook) : \E end \in start..Len(notebook) :
    \E added \in Arrangements({c \in cells : ~InNotebook(c)}) :
        LET events == <<NotebookEvent(start, end, added)>>
            res == withNotebookChangesAndEdit(altDoc, events, docs)
        IN  /\ start # end \/ added # <<>>
            /\ Len(res.doc.altCells) <= MaxEntries
            /\ notebook' = Splice(notebook, start, end - start, added)
            /\ altDoc' = res.doc
            /\ last' = Observed("notebookChanges", {}, res.threw, res.edit, altDoc,
                                 EventInRange(altDoc, events[1]))
            /\ UNCHANGED <<docs, others>>

NotebookChange == NotebookChangeWith(CellIds)

\* the same, every inserted cell being a code cell
CodeNotebookChange == NotebookChangeWith(CodeCells)

\* the host moves a cell: reported as the removal of the cell followed by
\* its insertion at the new index
MoveCell ==
    \E from \in 0..(Len(notebook) - 1) : \E to \in 0..(Len(notebook) - 1) :
        LET moved == notebook[from + 1]
            without == Splice(notebook, from, 1, <<>>)
            events == <<NotebookEvent(from, from + 1, <<>>),
                        NotebookEvent(to, to, <<moved>>)>>
            res == withNotebookChangesAndEdit(altDoc, events, docs)
        IN  /\ from # to
            /\ Len(res.doc.altCells) <= MaxEntries
            /\ notebook' = Splice(without, to, 0, <<moved>>)
            /\ altDoc' = res.doc
            /\ last' = Observed("notebookChanges", {}, res.threw, res.edit, altDoc,
                                 EventInRange(altDoc, events[1]))
            /\ UNCHANGED <<docs, others>>

\* a new snapshot of the notebook as it is now
Rebuild ==
    /\ altDoc' = withoutMDCells(notebook, docs)
    /\ last' = Observed("create", {}, FALSE, EmptyEdit, altDoc', TRUE)
    /\ UNCHANGED <<notebook, docs, others>>

Next == CellChange \/ CellChanges2 \/ NotebookChange \/ MoveCell

Spec == Init /\ [][Next]_vars

\* a notebook that holds code cells only, whatever the host does
NextCode == CellChange \/ CellChanges2 \/ CodeNotebookChange \/ MoveCell

SpecCode == Init /\ [][NextCode]_vars

\* notebooks that hold markup cells when their snapshot is created
NextMD == NotebookChange \/ Rebuild

SpecMD == InitMD /\ [][NextMD]_vars

\* content changes whose text has a CR outside a CR LF pair
NextCR == CellChange \/ NotebookChange \/ CellChangeLoneCR

SpecCR == Init /\ [][NextCR]_vars

----------------------------------------------------------------------------
(* Calls recorded in full: the snapshot a call is made on, its arguments,
   what it returns and what it leaves of the snapshot it was called on *)

\* withNotebookChangesAndEdit whose loop works on this.altCells itself: the
\* splice of the first event changes the receiver's array
thisAfterNotebookChangesNoSlice(doc, events, documents) ==
    IF events = <<>> \/ EventThrows(doc.altCells, Head(events)) THEN doc
    ELSE LET event == Head(events)
             newCells == [i \in 1..Len(event.addedCells) |->
                            [altCell |-> fromNotebookCell(event.addedCells[i],
                                            documents[event.addedCells[i]]),
                             startLine |-> 0, startOffset |-> 0]]
         IN  AltDoc(doc.excludeMarkdownCells,
                    Splice(doc.altCells, event.range.start,
                           event.range.end - event.range.start, newCells))

\* the snapshot withNotebookChangesAndEdit was called on, after the call:
\* the loop splices a copy of its array (this.altCells.slice()), cellsBuilder
\* maps that copy to a new array and the constructor gets the new array
thisAfterNotebookChanges(doc, events, documents) == doc

\* the snapshot withCellChanges / withCellChangesAndEdit was called on, after
\* the call: find and cellsBuilder's map only read this.altCells, and
\* withTextEdit constructs a new cell projection
thisAfterCellChanges(doc, c, events, documents) == doc

\* `documents`: the lines of the cells' documents before the call
Call(op, this, thisAfter, changed, events, threw, res, documents) ==
    [op |-> op, this |-> this, thisAfter |-> thisAfter, changed |-> changed,
     events |-> events, threw |-> threw, doc |-> res.doc,
     hasEdit |-> res.hasEdit, edit |-> res.edit, documents |-> documents]

InitCalls ==
    /\ notebook \in Arrangements(CodeCells)
    /\ docs \in [CellIds -> {SplitLines(t, <<>>) : t \in InitTexts}]
    /\ TotalChars(docs) <= MaxChars
    /\ altDoc = withoutMDCells(notebook, docs)
    /\ last = Call("create", altDoc, altDoc, {}, <<>>, FALSE,
                   [doc |-> altDoc, hasEdit |-> FALSE, edit |-> EmptyEdit], docs)
    /\ NoOthers

\* the host changes the text of a cell's document and reports one content
\* change; the document may be of a cell the notebook no longer holds
CallCellChanges ==
    \E c \in CellIds : \E range \in Ranges(docs[c]) : \E text \in ChangeTexts :
        LET newLines == HostReplace(c, docs[c], range, text)
            newDocs == [docs EXCEPT ![c] = newLines]
            events == <<ContentChange(c, docs[c], range, text)>>
            res == withCellChangesAndEdit(altDoc, c, events, newDocs)
        IN  /\ TotalChars(newDocs) <= MaxChars
            /\ docs' = newDocs
            /\ altDoc' = res.doc
            /\ last' = Call("cellChanges", altDoc,
                            thisAfterCellChanges(altDoc, c, events, newDocs),
                            {c}, events, FALSE, res, docs)
            /\ UNCHANGED <<notebook, others>>

\* the host reports a change of a cell's document that holds no content
\* change
CallNoCellChanges ==
    \E c \in CellIds :
        LET res == withCellChangesAndEdit(altDoc, c, <<>>, docs)
        IN  /\ altDoc' = res.doc
            /\ last' = Call("cellChanges", altDoc,
                            thisAfterCellChanges(altDoc, c, <<>>, docs),
                            {c}, <<>>, FALSE, res, docs)
            /\ UNCHANGED <<notebook, docs, others>>

\* the host removes and/or inserts code cells and reports one structural
\* change
CallNotebookChanges ==
    \E start \in 0..Len(notebook) : \E end \in start..Len(notebook) :
    \E added \in Arrangements({c \in CodeCells : ~InNotebook(c)}) :
        LET events == <<NotebookEvent(start, end, added)>>
            res == withNotebookChangesAndEdit(altDoc, events, docs)
        IN  /\ start # end \/ added # <<>>
            /\ Len(res.doc.altCells) <= MaxEntries
            /\ notebook' = Splice(notebook, start, end - start, added)
            /\ altDoc' = res.doc
            /\ last' = Call("notebookChanges", altDoc,
                            thisAfterNotebookChanges(altDoc, events, docs),
                            {}, events, res.threw, res, docs)
            /\ UNCHANGED <<docs, others>>

NextCalls == CallCellChanges \/ CallNoCellChanges \/ CallNotebookChanges

SpecCalls == InitCalls /\ [][NextCalls]_vars

----------------------------------------------------------------------------
(* A translator of one text, queried at any offset in any order *)

\* the text of a translator holds at most this many characters
MaxTextLen == 4

\* the texts a translator is made for
TranslatorTexts == UNION {Strings({"a", CR, LF}, n) : n \in 0..MaxTextLen}

\* no notebook is open
NoNotebook ==
    /\ notebook = <<>>
    /\ docs = [c \in CellIds |-> SplitLines(<<>>, <<>>)]
    /\ altDoc = withoutMDCells(notebook, docs)
    /\ last = Observed("create", {}, FALSE, EmptyEdit, altDoc, TRUE)

\* nothing but a translator, a stream operation, the terminal service
NoAgents == codex = NoCodex /\ textDocument = NoTextDocument
OnlyTranslator ==
    /\ NoNotebook /\ stream = NoStream
    /\ terminalService = NoTerminalService /\ NoAgents
OnlyStream ==
    /\ NoNotebook /\ translator = NoTranslator
    /\ terminalService = NoTerminalService /\ NoAgents
OnlyTerminalService ==
    /\ NoNotebook /\ translator = NoTranslator /\ stream = NoStream
    /\ NoAgents
OnlyCodex ==
    /\ NoNotebook /\ translator = NoTranslator /\ stream = NoStream
    /\ terminalService = NoTerminalService
    /\ textDocument = NoTextDocument
OnlyTextDocument ==
    /\ NoNotebook /\ translator = NoTranslator /\ stream = NoStream
    /\ terminalService = NoTerminalService
    /\ codex = NoCodex

\* new CrLfOffsetTranslator(text)
InitTranslator ==
    /\ OnlyTranslator
    /\ \E text \in TranslatorTexts :
           translator = [NoTranslator EXCEPT !.text = text]

\* translator.translate(offset), for any offset into the text
Translate ==
    \E offset \in 0..Len(translator.text) :
        /\ translator' = [translator EXCEPT
                             !.queried = TRUE,
                             !.offset = offset,
                             !.result = translate(translator.text, offset)]
        /\ UNCHANGED exceptTranslator

NextTranslator == Translate

SpecTranslator == InitTranslator /\ [][NextTranslator]_vars

----------------------------------------------------------------------------
(* AsyncStreamUtils.buffer (util/common/asyncStreamUtils) *)

\* a source stream delivers at most this many items
MaxItems == 5

\* the largest bufferSize given to buffer
MaxBufferSize == 2

\* the items of a stream
Items == {1, 2}

\* the source streams: the items a source delivers, after which it
\* completes or throws
Sources == UNION {Strings(Items, n) : n \in 0..MaxItems}

\* buffer(stream, bufferSize, options), before the consumer asks for the
\* first chunk
bufferStart(source, sourceThrows, bufferSize, continueOnError) ==
    [op |-> "buffer", source |-> source, sourceThrows |-> sourceThrows,
     bufferSize |-> bufferSize, continueOnError |-> continueOnError,
     pos |-> 0, buffer |-> <<>>, yielded |-> <<>>,
     cancelled |-> FALSE, cancelledAt |-> <<>>, status |-> "running"]

\* the loop body, for the next item of the source
bufferOnItem(s) ==
    LET item == s.source[s.pos + 1]
        pushed == Append(s.buffer, item)
    IN  IF s.cancelled
        THEN [s EXCEPT !.pos = s.pos + 1, !.status = "cancelled"]
        ELSE IF Len(pushed) >= s.bufferSize
        THEN [s EXCEPT !.pos = s.pos + 1, !.buffer = <<>>,
                       !.yielded = Append(s.yielded, pushed)]
        ELSE [s EXCEPT !.pos = s.pos + 1, !.buffer = pushed]

\* a buffer that drops what remains when the source completes
bufferOnEndNoFlush(s) ==
    [s EXCEPT !.buffer = <<>>, !.status = "done"]

\* after the loop: the source has completed
bufferOnEnd(s) ==
    IF Len(s.buffer) > 0
    THEN [s EXCEPT !.buffer = <<>>, !.yielded = Append(s.yielded, s.buffer),
                   !.status = "done"]
    ELSE [s EXCEPT !.status = "done"]

\* the catch clause: the source has thrown an error that is no
\* CancellationError
bufferOnError(s) ==
    IF ~s.continueOnError
    THEN [s EXCEPT !.status = "failed"]
    ELSE IF Len(s.buffer) > 0
    THEN [s EXCEPT !.buffer = <<>>, !.yielded = Append(s.yielded, s.buffer),
                   !.status = "done"]
    ELSE [s EXCEPT !.status = "done"]

InitBuffer ==
    /\ OnlyStream
    /\ \E source \in Sources : \E bufferSize \in 0..MaxBufferSize :
       \E sourceThrows \in BOOLEAN : \E continueOnError \in BOOLEAN :
           stream = bufferStart(source, sourceThrows, bufferSize,
                                continueOnError)

\* the source delivers its next item
BufferItem ==
    /\ stream.status = "running"
    /\ stream.pos < Len(stream.source)
    /\ stream' = bufferOnItem(stream)
    /\ UNCHANGED exceptStream

\* the source completes
BufferSourceEnd ==
    /\ stream.status = "running"
    /\ stream.pos = Len(stream.source)
    /\ ~stream.sourceThrows
    /\ stream' = bufferOnEnd(stream)
    /\ UNCHANGED exceptStream

\* the source throws
BufferSourceThrows ==
    /\ stream.status = "running"
    /\ stream.pos = Len(stream.source)
    /\ stream.sourceThrows
    /\ stream' = bufferOnError(stream)
    /\ UNCHANGED exceptStream

\* cancellation of the effective token is requested; cancelledAt keeps what
\* had been yielded by then
Cancel ==
    /\ stream.status = "running"
    /\ ~stream.cancelled
    /\ stream' = [stream EXCEPT !.cancelled = TRUE,
                                !.cancelledAt = stream.yielded]
    /\ UNCHANGED exceptStream

NextBuffer == BufferItem \/ BufferSourceEnd \/ BufferSourceThrows \/ Cancel

SpecBuffer == InitBuffer /\ [][NextBuffer]_vars

----------------------------------------------------------------------------
(* AsyncStreamUtils.retry *)

\* the largest maxRetries given to retry
MaxRetries == 2

\* the stream of an attempt delivers at most this many items
MaxAttemptItems == 2

\* what an attempt can throw
Errors == {"Error1", "Error2", "CancellationError"}

\* retry(streamFactory, maxRetries, options), before the consumer asks for
\* the first item; invocations counts the calls of streamFactory and
\* outcomes holds how each attempt ended
retryStart(maxRetries, continueOnError) ==
    [op |-> "retry", maxRetries |-> maxRetries,
     continueOnError |-> continueOnError,
     attempt |-> 0, invocations |-> 0, outcomes |-> <<>>,
     iterating |-> FALSE, items |-> 0, yielded |-> 0,
     cancelled |-> FALSE, cancelledAt |-> 0, status |-> "running",
     error |-> "none"]

\* the condition of the while loop
retryLoopCondition(s) == s.attempt <= s.maxRetries /\ ~s.cancelled

\* a retry that gives up one attempt early
retryOnErrorOneEarly(s, error) ==
    LET t == [s EXCEPT !.outcomes = Append(s.outcomes, error),
                       !.iterating = FALSE]
    IN  IF error = "CancellationError"
        THEN [t EXCEPT !.status = "cancelled", !.error = error]
        ELSE IF s.attempt + 1 >= s.maxRetries
        THEN IF ~s.continueOnError
             THEN [t EXCEPT !.attempt = s.attempt + 1, !.status = "failed",
                            !.error = error]
             ELSE [t EXCEPT !.attempt = s.attempt + 1, !.status = "done"]
        ELSE [t EXCEPT !.attempt = s.attempt + 1]

\* the catch clause; the wait of retryDelayMs before the next attempt
\* changes nothing
retryOnError(s, error) ==
    LET t == [s EXCEPT !.outcomes = Append(s.outcomes, error),
                       !.iterating = FALSE]
    IN  IF error = "CancellationError"
        THEN [t EXCEPT !.status = "cancelled", !.error = error]
        ELSE IF s.attempt + 1 > s.maxRetries
        THEN IF ~s.continueOnError
             THEN [t EXCEPT !.attempt = s.attempt + 1, !.status = "failed",
                            !.error = error]
             ELSE [t EXCEPT !.attempt = s.attempt + 1, !.status = "done"]
        ELSE [t EXCEPT !.attempt = s.attempt + 1]

\* the body of for await, for the next item of the attempt's stream
retryOnItem(s) ==
    IF s.cancelled
    THEN retryOnError([s EXCEPT !.items = s.items + 1], "CancellationError")
    ELSE [s EXCEPT !.items = s.items + 1, !.yielded = s.yielded + 1]

InitRetry ==
    /\ OnlyStream
    /\ \E maxRetries \in 0..MaxRetries : \E continueOnError \in BOOLEAN :
           stream = retryStart(maxRetries, continueOnError)

\* the loop ends without a further attempt
RetryLoopExit ==
    /\ stream.status = "running"
    /\ ~stream.iterating
    /\ ~retryLoopCondition(stream)
    /\ stream' = [stream EXCEPT !.status = "done"]
    /\ UNCHANGED exceptStream

\* streamFactory() returns a stream
RetryFactoryReturns ==
    /\ stream.status = "running"
    /\ ~stream.iterating
    /\ retryLoopCondition(stream)
    /\ stream' = [stream EXCEPT !.invocations = stream.invocations + 1,
                                !.iterating = TRUE, !.items = 0]
    /\ UNCHANGED exceptStream

\* streamFactory() throws
RetryFactoryThrows ==
    \E error \in Errors :
        /\ stream.status = "running"
        /\ ~stream.iterating
        /\ retryLoopCondition(stream)
        /\ stream' = retryOnError(
                         [stream EXCEPT !.invocations = stream.invocations + 1],
                         error)
        /\ UNCHANGED exceptStream

\* the stream of the attempt delivers an item
RetryItem ==
    /\ stream.status = "running"
    /\ stream.iterating
    /\ stream.items < MaxAttemptItems
    /\ stream' = retryOnItem(stream)
    /\ UNCHANGED exceptStream

\* the stream of the attempt completes
RetryAttemptEnds ==
    /\ stream.status = "running"
    /\ stream.iterating
    /\ stream' = [stream EXCEPT !.outcomes = Append(stream.outcomes, "ok"),
                                !.iterating = FALSE, !.status = "done"]
    /\ UNCHANGED exceptStream

\* the stream of the attempt throws
RetryAttemptThrows ==
    \E error \in Errors :
        /\ stream.status = "running"
        /\ stream.iterating
        /\ stream' = retryOnError(stream, error)
        /\ UNCHANGED exceptStream

NextRetry ==
    \/ RetryLoopExit
    \/ RetryFactoryReturns
    \/ RetryFactoryThrows
    \/ RetryItem
    \/ RetryAttemptEnds
    \/ RetryAttemptThrows
    \/ Cancel

SpecRetry == InitRetry /\ [][NextRetry]_vars

----------------------------------------------------------------------------
(* AsyncStreamUtils.mapWithErrorHandling *)

\* the source streams of a mapped stream: the items 1..n in order
MapSources == {[i \in 1..n |-> i] : n \in 0..MaxItems}

\* what mapper(item) does: it returns, or throws an error or a
\* CancellationError
MapperOutcomes == {"ok", "Error", "CancellationError"}

\* what options.onError(error, item) does: it returns a value, returns
\* undefined, or throws
HandlerOutcomes == {"value", "undefined", "throws"}

\* the value the mapper returns for an item, the value the handler returns
mapped(item) == <<"mapped", item>>
handled(item) == <<"handled", item>>

\* mapWithErrorHandling(stream, mapper, options), before the consumer asks
\* for the first item; log holds what the mapper and the handler did for
\* every item taken from the source
mapStart(source, sourceThrows, onError, continueOnError) ==
    [op |-> "map", source |-> source, sourceThrows |-> sourceThrows,
     onError |-> onError, continueOnError |-> continueOnError,
     pos |-> 0, yielded |-> <<>>, log |-> <<>>,
     cancelled |-> FALSE, cancelledAt |-> <<>>,
     status |-> "running", error |-> "none"]

\* the outer catch clause
mapOnOuterError(s, error) ==
    IF error = "CancellationError"
    THEN [s EXCEPT !.status = "cancelled", !.error = error]
    ELSE IF ~s.continueOnError
    THEN [s EXCEPT !.status = "failed", !.error = error]
    ELSE [s EXCEPT !.status = "done"]

\* a mapped stream that goes on after a failing mapper whatever the options
mapOnMapperErrorSkipping(s, item, error, handler) ==
    IF error = "CancellationError"
    THEN mapOnOuterError(s, error)
    ELSE IF s.onError
    THEN IF handler = "throws" THEN mapOnOuterError(s, "HandlerError")
         ELSE IF handler = "value"
         THEN [s EXCEPT !.yielded = Append(s.yielded, handled(item))]
         ELSE s
    ELSE s

\* the inner catch clause: mapper(item) has thrown
mapOnMapperError(s, item, error, handler) ==
    IF error = "CancellationError"
    THEN mapOnOuterError(s, error)
    ELSE IF s.onError
    THEN IF handler = "throws" THEN mapOnOuterError(s, "HandlerError")
         ELSE IF handler = "value"
         THEN [s EXCEPT !.yielded = Append(s.yielded, handled(item))]
         ELSE s
    ELSE IF ~s.continueOnError
    THEN mapOnOuterError(s, error)
    ELSE s

\* the loop body, for the next item of the source
mapOnItem(s, mapper, handler) ==
    LET item == s.source[s.pos + 1]
        called == mapper # "ok" /\ mapper # "CancellationError" /\ s.onError
        entry == [item |-> item, mapper |-> mapper,
                  handler |-> IF called THEN handler ELSE "none"]
        t == [s EXCEPT !.pos = s.pos + 1, !.log = Append(s.log, entry)]
    IN  IF s.cancelled
        THEN mapOnOuterError([s EXCEPT !.pos = s.pos + 1], "CancellationError")
        ELSE IF mapper = "ok"
        THEN [t EXCEPT !.yielded = Append(s.yielded, mapped(item))]
        ELSE mapOnMapperError(t, item, mapper, handler)

InitMap ==
    /\ OnlyStream
    /\ \E source \in MapSources : \E sourceThrows \in BOOLEAN :
       \E onError \in BOOLEAN : \E continueOnError \in BOOLEAN :
           stream = mapStart(source, sourceThrows, onError, continueOnError)

\* the source delivers its next item
MapItem ==
    \E mapper \in MapperOutcomes : \E handler \in HandlerOutcomes :
        /\ stream.status = "running"
        /\ stream.pos < Len(stream.source)
        /\ stream' = mapOnItem(stream, mapper, handler)
        /\ UNCHANGED exceptStream

\* the source completes
MapSourceEnd ==
    /\ stream.status = "running"
    /\ stream.pos = Len(stream.source)
    /\ ~stream.sourceThrows
    /\ stream' = [stream EXCEPT !.status = "done"]
    /\ UNCHANGED exceptStream

\* the source throws
MapSourceThrows ==
    /\ stream.status = "running"
    /\ stream.pos = Len(stream.source)
    /\ stream.sourceThrows
    /\ stream' = mapOnOuterError(stream, "SourceError")
    /\ UNCHANGED exceptStream

NextMap == MapItem \/ MapSourceEnd \/ MapSourceThrows \/ Cancel

SpecMap == InitMap /\ [][NextMap]_vars

----------------------------------------------------------------------------
(* AsyncStreamUtils.debounce *)

\* debounce(stream, delayMs, options), before the consumer asks for the
\* first item.  pos counts the results taken from the source's iterator, by
\* reads that won the race and by reads that lost it; lost holds the items
\* delivered to reads that had lost the race; atYield tells that the
\* generator is suspended at a yield
debounceStart(source, sourceThrows, continueOnError) ==
    [op |-> "debounce", source |-> source, sourceThrows |-> sourceThrows,
     continueOnError |-> continueOnError,
     pos |-> 0, latestItem |-> 0, hasItem |-> FALSE, lost |-> {},
     atYield |-> FALSE, yielded |-> <<>>,
     cancelled |-> FALSE, cancelledAt |-> <<>>, status |-> "running"]

\* the read of the source that lost the race stays pending on the iterator:
\* the next item of the source goes to it and to nobody else (the end of
\* the source, or its error, is told again to the read after it)
debounceAbandonRead(s) ==
    IF s.pos < Len(s.source)
    THEN [s EXCEPT !.pos = s.pos + 1,
                   !.lost = s.lost \cup {s.source[s.pos + 1]}]
    ELSE s

\* a debounce whose abandoned read takes nothing from the source
debounceOnTimeoutKeepingRead(s) ==
    IF s.hasItem /\ s.latestItem # 0
    THEN [s EXCEPT !.yielded = Append(s.yielded, s.latestItem),
                   !.hasItem = FALSE, !.latestItem = 0, !.atYield = TRUE]
    ELSE [s EXCEPT !.atYield = FALSE]

\* the race is won by the timer: the latest item, if any, is yielded; the
\* read started in this pass is left behind
debounceOnTimeout(s) ==
    LET t == debounceAbandonRead(s)
    IN  IF s.hasItem /\ s.latestItem # 0
        THEN [t EXCEPT !.yielded = Append(s.yielded, s.latestItem),
                       !.hasItem = FALSE, !.latestItem = 0, !.atYield = TRUE]
        ELSE [t EXCEPT !.atYield = FALSE]

\* the race is won by the read, which delivers an item
debounceOnItem(s) ==
    [s EXCEPT !.pos = s.pos + 1, !.latestItem = s.source[s.pos + 1],
              !.hasItem = TRUE, !.atYield = FALSE]

\* the race is won by the read, which tells that the source is done
debounceOnDone(s) ==
    IF s.hasItem /\ s.latestItem # 0
    THEN [s EXCEPT !.yielded = Append(s.yielded, s.latestItem),
                   !.status = "done", !.atYield = FALSE]
    ELSE [s EXCEPT !.status = "done", !.atYield = FALSE]

\* the catch clause, for an error of the source
debounceOnError(s) ==
    IF ~s.continueOnError
    THEN [s EXCEPT !.status = "failed", !.atYield = FALSE]
    ELSE [s EXCEPT !.status = "done", !.atYield = FALSE]

\* cancellation has been requested: seen by the loop condition when the
\* generator resumes from a yield, the loop ends and the stream completes;
\* seen after the race, a CancellationError is thrown
debounceOnCancelled(s) ==
    IF s.atYield
    THEN [s EXCEPT !.status = "done", !.atYield = FALSE]
    ELSE [debounceAbandonRead(s) EXCEPT !.status = "cancelled"]

InitDebounce ==
    /\ OnlyStream
    /\ \E source \in MapSources :
       \E sourceThrows \in BOOLEAN : \E continueOnError \in BOOLEAN :
           stream = debounceStart(source, sourceThrows, continueOnError)

\* the timer of delayMs fires before the read of the source settles
DebounceTimeout ==
    /\ stream.status = "running"
    /\ ~stream.cancelled
    /\ stream' = debounceOnTimeout(stream)
    /\ UNCHANGED exceptStream

\* the source delivers its next item before the timer fires
DebounceItem ==
    /\ stream.status = "running"
    /\ ~stream.cancelled
    /\ stream.pos < Len(stream.source)
    /\ stream' = debounceOnItem(stream)
    /\ UNCHANGED exceptStream

\* the source completes before the timer fires
DebounceSourceEnd ==
    /\ stream.status = "running"
    /\ ~stream.cancelled
    /\ stream.pos = Len(stream.source)
    /\ ~stream.sourceThrows
    /\ stream' = debounceOnDone(stream)
    /\ UNCHANGED exceptStream

\* the source throws before the timer fires
DebounceSourceThrows ==
    /\ stream.status = "running"
    /\ ~stream.cancelled
    /\ stream.pos = Len(stream.source)
    /\ stream.sourceThrows
    /\ stream' = debounceOnError(stream)
    /\ UNCHANGED exceptStream

\* the generator goes on after cancellation has been requested
DebounceCancelled ==
    /\ stream.status = "running"
    /\ stream.cancelled
    /\ stream' = debounceOnCancelled(stream)
    /\ UNCHANGED exceptStream

NextDebounce ==
    \/ DebounceTimeout
    \/ DebounceItem
    \/ DebounceSourceEnd
    \/ DebounceSourceThrows
    \/ DebounceCancelled
    \/ Cancel

SpecDebounce == InitDebounce /\ [][NextDebounce]_vars

----------------------------------------------------------------------------
(* TerminalServiceImpl (platform/terminal/vscode/terminalServiceImpl) *)

\* the window holds at most this many terminals
MaxTerminals == 2

\* the process ids of terminals are 1..MaxPid
MaxPid == 2

Pids == 1..MaxPid

\* what terminal.processId, raced with the timeout of five seconds, gives:
\* a number, undefined (no process id, or none in time), or a rejection
ProcessIds ==
    {[kind |-> "number", pid |-> pid] : pid \in Pids}
    \cup {[kind |-> "undefined", pid |-> 0], [kind |-> "rejects", pid |-> 0]}

\* the chat sessions
Sessions == {"s1", "s2"}

\* the ids of terminals
CopilotId(pid) == <<"copilot-terminal", pid>>
UserId(pid) == <<"user-terminal", pid>>
FallbackId == <<"terminal", 0>>

\* the entries of workspaceState[TerminalSessionStorageKey]
NoAssociation ==
    [present |-> FALSE, id |-> <<"none", 0>>, isCopilotTerminal |-> FALSE,
     sessionId |-> "none"]
UserAssociation(pid) ==
    [present |-> TRUE, id |-> UserId(pid), isCopilotTerminal |-> FALSE,
     sessionId |-> "none"]
CopilotAssociation(sessionId, id) ==
    [present |-> TRUE, id |-> id, isCopilotTerminal |-> TRUE,
     sessionId |-> sessionId]

\* the window has no terminal, the workspace state no association, and
\* getAllTerminals has not been called; listed, result and stored hold the
\* terminals, the result and the workspace state of the last call
terminalServiceStart ==
    [op |-> "terminals", terminals |-> <<>>,
     associations |-> [pid \in Pids |-> NoAssociation],
     called |-> FALSE, listed |-> <<>>, result |-> <<>>,
     stored |-> [pid \in Pids |-> NoAssociation]]

\* the loop of getAllTerminals from terminal i on: the result and the
\* associations
RECURSIVE getAllTerminalsFrom(_, _, _, _)
getAllTerminalsFrom(terminals, i, result, associations) ==
    IF i > Len(terminals) THEN [result |-> result, associations |-> associations]
    ELSE
    LET processId == terminals[i]
        pid == processId.pid
    IN  IF processId.kind = "rejects"
        THEN getAllTerminalsFrom(terminals, i + 1,
                 Append(result, [terminal |-> i, id |-> FallbackId]),
                 associations)
        ELSE IF processId.kind = "number"
        THEN LET association ==
                     IF associations[pid].present THEN associations[pid]
                     ELSE UserAssociation(pid)
             IN  getAllTerminalsFrom(terminals, i + 1,
                     Append(result, [terminal |-> i, id |-> association.id]),
                     [associations EXCEPT ![pid] = association])
        ELSE getAllTerminalsFrom(terminals, i + 1, result, associations)

\* getAllTerminals(): the result and the associations it stores
getAllTerminals(terminals, associations) ==
    getAllTerminalsFrom(terminals, 1, <<>>, associations)

InitTerminalService ==
    /\ OnlyTerminalService
    /\ terminalService = terminalServiceStart

\* a terminal is opened, by the user or by createTerminal; two open
\* terminals have different processes
CreateTerminal ==
    \E processId \in ProcessIds :
        /\ Len(terminalService.terminals) < MaxTerminals
        /\ processId.kind = "number" =>
              \A i \in 1..Len(terminalService.terminals) :
                  terminalService.terminals[i] # processId
        /\ terminalService' =
              [terminalService EXCEPT
                  !.terminals = Append(terminalService.terminals, processId)]
        /\ UNCHANGED exceptTerminalService

\* associateTerminalWithSession(terminal, sessionId, id, quality)
AssociateTerminalWithSession ==
    \E i \in 1..Len(terminalService.terminals) : \E sessionId \in Sessions :
        LET processId == terminalService.terminals[i]
        IN  /\ terminalService' =
                  IF processId.kind = "number"
                  THEN [terminalService EXCEPT
                           !.associations[processId.pid] =
                               CopilotAssociation(sessionId,
                                                  CopilotId(processId.pid))]
                  ELSE terminalService
            /\ UNCHANGED exceptTerminalService

\* a terminal is closed; the listener of onDidCloseTerminal removes the
\* association of its process id
CloseTerminal ==
    \E i \in 1..Len(terminalService.terminals) :
        LET processId == terminalService.terminals[i]
            remaining == Splice(terminalService.terminals, i - 1, 1, <<>>)
        IN  /\ terminalService' =
                  IF processId.kind = "number"
                  THEN [terminalService EXCEPT
                           !.terminals = remaining,
                           !.associations[processId.pid] = NoAssociation]
                  ELSE [terminalService EXCEPT !.terminals = remaining]
            /\ UNCHANGED exceptTerminalService

\* getAllTerminals()
GetAllTerminals ==
    LET r == getAllTerminals(terminalService.terminals,
                             terminalService.associations)
    IN  /\ terminalService' =
              [terminalService EXCEPT
                  !.called = TRUE,
                  !.listed = terminalService.terminals,
                  !.result = r.result,
                  !.stored = r.associations,
                  !.associations = r.associations]
        /\ UNCHANGED exceptTerminalService

NextTerminalService ==
    \/ CreateTerminal
    \/ AssociateTerminalWithSession
    \/ CloseTerminal
    \/ GetAllTerminals

SpecTerminalService == InitTerminalService /\ [][NextTerminalService]_vars

----------------------------------------------------------------------------
(* TerminalServiceImpl: calls that overlap at their awaits *)

\* workspaceState.get(key, {}) hands out the object the state holds, or the
\* {} of the call when it holds none, and the callers change that object in
\* place before they pass it to update.  `associations` is the object the
\* state holds (hasStored: it holds one); `clones` tells whether update
\* keeps a copy of what it is given or the object itself.  `all` is the
\* getAllTerminals call in progress: the terminals it iterates, its place
\* in the loop, its result, the object it got from the state and whether
\* that object is still the one the state holds.  `assoc` is the
\* associateTerminalWithSession call in progress.  `kept` holds, by process
\* id, the session of an association that was stored while a
\* getAllTerminals call was in progress and not removed or replaced since
NoCall == [pc |-> "idle", terminals |-> <<>>, i |-> 0, result |-> <<>>,
           associations |-> [pid \in Pids |-> NoAssociation],
           shared |-> FALSE]

NoAssociate == [pc |-> "idle", processId |-> [kind |-> "undefined", pid |-> 0],
                sessionId |-> "none"]

terminalCallsStart(terminals, clones, hasStored) ==
    [op |-> "calls", terminals |-> terminals, clones |-> clones,
     hasStored |-> hasStored,
     associations |-> [pid \in Pids |-> NoAssociation],
     all |-> NoCall, assoc |-> NoAssociate,
     kept |-> [pid \in Pids |-> "none"]]

\* getAllTerminals up to its first await: the list of terminals and the
\* object of the workspace state
getAllTerminalsBegin(s) ==
    [s EXCEPT !.all = [pc |-> "loop", terminals |-> s.terminals, i |-> 1,
                       result |-> <<>>,
                       associations |-> s.associations,
                       shared |-> s.hasStored]]

\* one pass of the loop of getAllTerminals, after the await of processId;
\* what it writes into its object shows in the workspace state when the
\* object is the one the state holds
getAllTerminalsPass(s) ==
    LET step == getAllTerminalsFrom(
                    SubSeq(s.all.terminals, s.all.i, s.all.i), 1, <<>>,
                    s.all.associations)
        renumbered == [k \in 1..Len(step.result) |->
                          [step.result[k] EXCEPT !.terminal = s.all.i]]
    IN  [s EXCEPT !.all.i = s.all.i + 1,
                  !.all.result = s.all.result \o renumbered,
                  !.all.associations = step.associations,
                  !.associations = IF s.all.shared THEN step.associations
                                   ELSE s.associations]

\* after the loop: workspaceState.update with the object of the call
getAllTerminalsEnd(s) ==
    [s EXCEPT !.all = NoCall, !.hasStored = TRUE,
              !.associations = s.all.associations]

\* getAllTerminals() from the call to its first await, or to its return
\* when the window has no terminal
getAllTerminalsCall(s) ==
    LET t == getAllTerminalsBegin(s)
    IN  IF t.all.terminals = <<>> THEN getAllTerminalsEnd(t) ELSE t

\* getAllTerminals() from one await of processId to the next, or to its
\* return after the last terminal: nothing is awaited between the last pass
\* and the update
getAllTerminalsResume(s) ==
    LET t == getAllTerminalsPass(s)
    IN  IF t.all.i > Len(t.all.terminals) THEN getAllTerminalsEnd(t) ELSE t

\* workspaceState.update by another caller, with the object `associations`:
\* when update keeps a copy, the object a getAllTerminals call holds is no
\* longer the one of the state
updatedByOther(s, associations) ==
    [s EXCEPT !.hasStored = TRUE,
              !.associations = associations,
              !.all.associations = IF s.all.shared THEN associations
                                   ELSE s.all.associations,
              !.all.shared = s.all.shared /\ ~s.clones]

\* associateTerminalWithSession after the await of processId
associateTerminalWithSession(s, processId, sessionId) ==
    IF processId.kind = "number"
    THEN LET associations ==
                 [s.associations EXCEPT ![processId.pid] =
                     CopilotAssociation(sessionId, CopilotId(processId.pid))]
         IN  [updatedByOther(s, associations) EXCEPT
                 !.assoc = NoAssociate,
                 !.kept[processId.pid] =
                     IF s.all.pc # "idle" THEN sessionId ELSE "none"]
    ELSE [s EXCEPT !.assoc = NoAssociate]

\* removeTerminalAssociation(pid): it has no await before its update
removeTerminalAssociation(s, pid) ==
    [updatedByOther(s, [s.associations EXCEPT ![pid] = NoAssociation])
        EXCEPT !.kept[pid] = "none"]

InitTerminalCalls ==
    /\ OnlyTerminalService
    /\ \E clones \in BOOLEAN : \E hasStored \in BOOLEAN :
           terminalService = terminalCallsStart(<<>>, clones, hasStored)

\* getAllTerminals() is called
CallsGetAllBegin ==
    /\ terminalService.all.pc = "idle"
    /\ terminalService' = getAllTerminalsCall(terminalService)
    /\ UNCHANGED exceptTerminalService

\* the race of processId and the timeout settles for the next terminal
CallsGetAllPass ==
    /\ terminalService.all.pc = "loop"
    /\ terminalService' = getAllTerminalsResume(terminalService)
    /\ UNCHANGED exceptTerminalService

\* associateTerminalWithSession(terminal, sessionId, ...) is called and
\* waits for the terminal's process id
CallsAssociateBegin ==
    \E i \in 1..Len(terminalService.terminals) : \E sessionId \in Sessions :
        /\ terminalService.assoc.pc = "idle"
        /\ terminalService' =
              [terminalService EXCEPT
                  !.assoc = [pc |-> "await",
                             processId |-> terminalService.terminals[i],
                             sessionId |-> sessionId]]
        /\ UNCHANGED exceptTerminalService

\* the process id is there: the association is written and stored
CallsAssociateEnd ==
    /\ terminalService.assoc.pc = "await"
    /\ terminalService' =
          associateTerminalWithSession(terminalService,
              terminalService.assoc.processId, terminalService.assoc.sessionId)
    /\ UNCHANGED exceptTerminalService

\* removeTerminalAssociation(pid), as the listener of onDidCloseTerminal
\* calls it
CallsRemove ==
    \E pid \in Pids :
        /\ terminalService' = removeTerminalAssociation(terminalService, pid)
        /\ UNCHANGED exceptTerminalService

NextTerminalCalls ==
    \/ CreateTerminal
    \/ CallsGetAllBegin
    \/ CallsGetAllPass
    \/ CallsAssociateBegin
    \/ CallsAssociateEnd
    \/ CallsRemove

SpecTerminalCalls == InitTerminalCalls /\ [][NextTerminalCalls]_vars

----------------------------------------------------------------------------
(* CodexClient (extension/agents/vscode-node/codexClient) *)

\* One CodexClient and the Codex processes it has spawned.  A process is
\* named by the start() call that spawned it.  proc is _proc (0 when
\* undefined), running the processes that were spawned and have neither been
\* killed nor exited, killed the processes stop() has killed and whose 'exit'
\* event has not been emitted yet.  starts[c] is the position of call c of
\* start(): busy records whether, when the call began, a process was running
\* or another start() had not returned yet.
MaxStarts == 3
StartCalls == 1..MaxStarts

NotStarted == [pc |-> "idle", busy |-> FALSE]

codexClientStart ==
    [op |-> "client",
     proc |-> 0,
     running |-> {},
     killed |-> {},
     starts |-> [c \in StartCalls |-> NotStarted],
     written |-> <<>>,
     sent |-> "none"]

\* _sendSubmission and _writeJsonLine: the submission is written to the
\* stdin of _proc, and the call throws when there is none.  A written
\* submission is recorded with whether its process was running.
sendSubmission(s) ==
    IF s.proc = 0
    THEN [s EXCEPT !.sent = "threw"]
    ELSE [s EXCEPT !.sent = "written",
                   !.written = <<s.proc, s.proc \in s.running>>]

\* start(cwd) up to its first await: throws if _proc is set.
start(s, c) ==
    LET busy == s.running # {}
                \/ \E d \in StartCalls : s.starts[d].pc = "awaiting"
    IN  [s EXCEPT !.starts[c] =
            [pc |-> IF s.proc # 0 THEN "threw" ELSE "awaiting",
             busy |-> busy]]

\* One of the awaited steps of start() rejects: creating the directory,
\* starting the model server, writing the configuration, the version check.
startRejects(s, c) == [s EXCEPT !.starts[c].pc = "threw"]

\* start(cwd) after its awaits: the process is spawned and becomes _proc,
\* and the session is configured.
startSpawn(s, c) ==
    LET spawned == [s EXCEPT !.proc = c, !.running = @ \cup {c}]
        configured == sendSubmission(spawned)
    IN  [configured EXCEPT
            !.starts[c].pc = IF configured.sent = "threw" THEN "threw"
                             ELSE "returned"]

\* The 'exit' handler registered on a spawned process.
onExit(s, p) ==
    [s EXCEPT !.proc = 0, !.running = @ \ {p}, !.killed = @ \ {p}]

\* stop()
stop(s) ==
    IF s.proc # 0
    THEN [s EXCEPT !.proc = 0,
                   !.running = @ \ {s.proc},
                   !.killed = @ \cup {s.proc}]
    ELSE s

\* sendUserInput(text)
sendUserInput(s) == sendSubmission(s)

InitClient ==
    /\ OnlyCodex
    /\ codex = codexClientStart

ClientStart ==
    /\ codex.op = "client"
    /\ \E c \in StartCalls :
        /\ codex.starts[c].pc = "idle"
        /\ \A d \in StartCalls : d < c => codex.starts[d].pc # "idle"
        /\ codex' = start(codex, c)
    /\ UNCHANGED exceptCodex

ClientStartRejects ==
    /\ codex.op = "client"
    /\ \E c \in StartCalls :
        /\ codex.starts[c].pc = "awaiting"
        /\ codex' = startRejects(codex, c)
    /\ UNCHANGED exceptCodex

ClientStartSpawn ==
    /\ codex.op = "client"
    /\ \E c \in StartCalls :
        /\ codex.starts[c].pc = "awaiting"
        /\ codex' = startSpawn(codex, c)
    /\ UNCHANGED exceptCodex

ClientProcessExit ==
    /\ codex.op = "client"
    /\ \E p \in codex.running \cup codex.killed :
        codex' = onExit(codex, p)
    /\ UNCHANGED exceptCodex

ClientStop ==
    /\ codex.op = "client"
    /\ codex' = stop(codex)
    /\ UNCHANGED exceptCodex

ClientSendUserInput ==
    /\ codex.op = "client"
    /\ codex' = sendUserInput(codex)
    /\ UNCHANGED exceptCodex

NextClient ==
    \/ ClientStart
    \/ ClientStartRejects
    \/ ClientStartSpawn
    \/ ClientProcessExit
    \/ ClientStop
    \/ ClientSendUserInput

SpecClient == InitClient /\ [][NextClient]_vars

----------------------------------------------------------------------------
(* CodexAgentManager.handleRequest (extension/agents/vscode-node/codexAgent) *)

\* Chat requests of one session, all made to the session's CodexClient, from
\* the point where the client has been started and configured.  proc tells
\* whether the client's Codex process runs (_proc is set), turns counts the
\* user inputs Codex has received and not answered, messages the
\* agent_message events emitted.  Of request r: pc is the position of its
\* handleRequest call, listening whether its event listener is registered,
\* done whether responseDoneDeferred is completed, cancelled whether its
\* token is cancelled, progress the events written to its response stream.
MaxRequests == 2
MaxMessages == 2
Requests == 1..MaxRequests

NoRequest ==
    [pc |-> "idle", listening |-> FALSE, done |-> FALSE,
     cancelled |-> FALSE, progress |-> <<>>]

codexRequestStart(proc) ==
    [op |-> "request",
     proc |-> proc,
     turns |-> 0,
     messages |-> 0,
     requests |-> [r \in Requests |-> NoRequest]]

\* The listener of a request: every event is written to the response
\* stream, and only task_complete completes responseDoneDeferred.
eventListener(req, type) ==
    [req EXCEPT !.progress = Append(@, type),
                !.done = @ \/ type = "task_complete"]

\* _handleEvent: the event is fired to every registered listener.
handleEvent(s, type) ==
    [s EXCEPT !.requests =
        [r \in Requests |->
            IF s.requests[r].listening
            THEN eventListener(s.requests[r], type)
            ELSE s.requests[r]]]

\* handleRequest from the creation of responseDoneDeferred to its await:
\* the listener is registered and the user input is sent.  sendUserInput
\* throws when there is no process; the catch clause reports the error and
\* the call returns an empty result.
handleRequestSend(s, r) ==
    IF s.proc
    THEN [s EXCEPT !.turns = @ + 1,
                   !.requests[r].pc = "waiting",
                   !.requests[r].listening = TRUE]
    ELSE [s EXCEPT !.requests[r].pc = "failed",
                   !.requests[r].listening = TRUE,
                   !.requests[r].progress = Append(@, "failed")]

\* handleRequest after responseDoneDeferred.p has resolved.
handleRequestReturn(s, r) == [s EXCEPT !.requests[r].pc = "returned"]

\* token.onCancellationRequested: the listener is disposed.
onCancellationRequested(s, r) ==
    [s EXCEPT !.requests[r].cancelled = TRUE,
              !.requests[r].listening = FALSE]

\* The 'exit' handler of the process: _proc is cleared, nothing is fired.
onProcessExit(s) == [s EXCEPT !.proc = FALSE, !.turns = 0]

InitRequest ==
    /\ OnlyCodex
    /\ \E proc \in BOOLEAN : codex = codexRequestStart(proc)

RequestSend ==
    /\ codex.op = "request"
    /\ \E r \in Requests :
        /\ codex.requests[r].pc = "idle"
        /\ \A q \in Requests : q < r => codex.requests[q].pc # "idle"
        /\ codex' = handleRequestSend(codex, r)
    /\ UNCHANGED exceptCodex

RequestReturn ==
    /\ codex.op = "request"
    /\ \E r \in Requests :
        /\ codex.requests[r].pc = "waiting"
        /\ codex.requests[r].done
        /\ codex' = handleRequestReturn(codex, r)
    /\ UNCHANGED exceptCodex

RequestCancel ==
    /\ codex.op = "request"
    /\ \E r \in Requests :
        /\ codex.requests[r].pc = "waiting"
        /\ ~codex.requests[r].cancelled
        /\ codex' = onCancellationRequested(codex, r)
    /\ UNCHANGED exceptCodex

\* Codex says something while it works on an input.
CodexAgentMessage ==
    /\ codex.op = "request"
    /\ codex.proc /\ codex.turns > 0
    /\ codex.messages < MaxMessages
    /\ codex' = [handleEvent(codex, "agent_message")
                    EXCEPT !.messages = @ + 1]
    /\ UNCHANGED exceptCodex

\* Codex answers an input with task_complete.
CodexTaskComplete ==
    /\ codex.op = "request"
    /\ codex.proc /\ codex.turns > 0
    /\ codex' = [handleEvent(codex, "task_complete") EXCEPT !.turns = @ - 1]
    /\ UNCHANGED exceptCodex

\* Codex answers an input with an error event.
CodexError ==
    /\ codex.op = "request"
    /\ codex.proc /\ codex.turns > 0
    /\ codex' = [handleEvent(codex, "error") EXCEPT !.turns = @ - 1]
    /\ UNCHANGED exceptCodex

\* The Codex process exits.
CodexExit ==
    /\ codex.op = "request"
    /\ codex.proc
    /\ codex' = onProcessExit(codex)
    /\ UNCHANGED exceptCodex

\* Codex does not leave an input unanswered.
CodexAnswers ==
    /\ codex.op = "request"
    /\ codex.turns > 0
    /\ (CodexTaskComplete \/ CodexError \/ CodexExit)

NextRequest ==
    \/ RequestSend
    \/ RequestReturn
    \/ RequestCancel
    \/ CodexAgentMessage
    \/ CodexTaskComplete
    \/ CodexError
    \/ CodexExit

SpecRequest == InitRequest /\ [][NextRequest]_vars

\* A call runs on once its promise has resolved, and Codex answers every
\* input.
SpecRequestLive ==
    /\ SpecRequest
    /\ WF_vars(RequestReturn)
    /\ WF_vars(CodexAnswers)

----------------------------------------------------------------------------
(* LanguageModelServer (extension/agents/vscode-node/langModelServer) *)

\* A request is its method, its url, the value of its X-Nonce header
\* ("" when the header is missing) and its body: whether it is JSON and the
\* model it asks for ("" when it names none).  The server answers with a
\* status, and what matters of its dealings with the language models is
\* whether it listed them (selectChatModels) and which one it sent the
\* request to ("" when none).
Methods == {"OPTIONS", "GET", "POST"}
Urls ==
    {"/models", "/v1/chat/completions", "/v1/chat/completions?stream=1",
     "/anthropic-chat", "/", "/v1/embeddings"}
ServerNonce == "vscode-nonce"
Nonces == {"", "other-nonce", ServerNonce}
RequestedModels == {"", "gpt-4.1", "claude-sonnet-4-0", "claude-3-5-haiku-1"}
Bodies == [json : BOOLEAN, model : RequestedModels]

\* The lists vscode.lm.selectChatModels() can return.
Gpt41 == [id |-> "gpt-4.1", vendor |-> "copilot"]
Sonnet4 == [id |-> "claude-sonnet-4", vendor |-> "anthropic"]
ModelLists == {<<>>, <<Gpt41>>, <<Sonnet4>>, <<Sonnet4, Gpt41>>}

\* url.startsWith('/v1/chat/completions')
startsWithChatCompletions(url) ==
    url \in {"/v1/chat/completions", "/v1/chat/completions?stream=1"}
\* model.startsWith('claude-3-5-haiku'), model.startsWith('claude-sonnet-4')
startsWithHaiku(model) == model = "claude-3-5-haiku-1"
startsWithSonnet4(model) == model \in {"claude-sonnet-4", "claude-sonnet-4-0"}
\* id.includes('gpt-4o-mini'), id.includes('claude-sonnet-4')
includesMini(id) == id = "gpt-4o-mini"
includesSonnet4(id) == id = "claude-sonnet-4"

\* models.find(pred): the id of the first model of the list that is among
\* those the predicate holds for, "" standing for undefined.
RECURSIVE findFrom(_, _, _)
findFrom(models, holding, i) ==
    IF i > Len(models) THEN ""
    ELSE IF models[i] \in holding THEN models[i].id
    ELSE findFrom(models, holding, i + 1)
find(models, holding) == findFrom(models, holding, 1)

respond(status, selected, called) ==
    [status |-> status, selected |-> selected, called |-> called]

\* handleChatRequest(request, res)
handleChatRequest(body, models) ==
    LET model == IF startsWithHaiku(body.model) THEN "gpt-4o-mini"
                 ELSE IF startsWithSonnet4(body.model) THEN "claude-sonnet-4"
                 ELSE body.model
        byId == {m \in {Gpt41, Sonnet4} : m.id = model}
        selectedModel == IF model # "" THEN find(models, byId)
                         ELSE models[1].id
    IN  IF models = <<>> THEN respond(404, TRUE, "")
        ELSE IF selectedModel = "" THEN respond(404, TRUE, "")
        ELSE respond(200, TRUE, selectedModel)

\* handleModelsRequest(req, res)
handleModelsRequest(req, models) ==
    IF req.nonce # ServerNonce THEN respond(401, FALSE, "")
    ELSE respond(200, TRUE, "")

\* handleAnthropicChatRequest(body, res)
handleAnthropicChatRequest(body, models) ==
    LET mini == {m \in {Gpt41, Sonnet4} : includesMini(m.id)}
        sonnet == {m \in {Gpt41, Sonnet4} : includesSonnet4(m.id)}
        copilot == {m \in {Gpt41, Sonnet4} : m.vendor = "copilot"}
        orCopilot(id) == IF id # "" THEN id ELSE find(models, copilot)
        selectedModel ==
            IF startsWithHaiku(body.model) THEN orCopilot(find(models, mini))
            ELSE IF startsWithSonnet4(body.model)
            THEN orCopilot(find(models, sonnet))
            ELSE models[1].id
    IN  IF ~body.json THEN respond(500, FALSE, "")
        ELSE IF models = <<>> THEN respond(404, TRUE, "")
        ELSE IF selectedModel = "" THEN respond(404, TRUE, "")
        ELSE respond(200, TRUE, selectedModel)

\* The chat completions route and the legacy root route: the body is read
\* and parsed, then the nonce is verified, then the request is handled.
chatRoute(req, models) ==
    IF ~req.body.json THEN respond(500, FALSE, "")
    ELSE IF req.nonce # ServerNonce THEN respond(401, FALSE, "")
    ELSE handleChatRequest(req.body, models)

\* The request listener of createServer.
createServer(req, models) ==
    IF req.method = "OPTIONS" THEN respond(200, FALSE, "")
    ELSE IF req.method = "GET" /\ req.url = "/models"
    THEN handleModelsRequest(req, models)
    ELSE IF req.method = "POST" /\ startsWithChatCompletions(req.url)
    THEN chatRoute(req, models)
    ELSE IF req.method = "POST" /\ req.url = "/anthropic-chat"
    THEN handleAnthropicChatRequest(req.body, models)
    ELSE IF req.method = "POST" /\ req.url = "/"
    THEN chatRoute(req, models)
    ELSE respond(404, FALSE, "")

ServerRequests ==
    [method : Methods, url : Urls, nonce : Nonces, body : Bodies]

codexServerStart == [op |-> "server", handled |-> FALSE]

InitServer ==
    /\ OnlyCodex
    /\ codex = codexServerStart

\* The server handles a request.
ServerRequest ==
    /\ codex.op = "server"
    /\ \E req \in ServerRequests, models \in ModelLists :
        codex' = [op |-> "server", handled |-> TRUE,
                  req |-> req, models |-> models,
                  res |-> createServer(req, models)]
    /\ UNCHANGED exceptCodex

NextServer == ServerRequest

SpecServer == InitServer /\ [][NextServer]_vars

----------------------------------------------------------------------------
(* OffsetBasedTextDocument (platform/editing/common/offsetBasedTextDocument) *)

\* The document is its text (_value) and its converter (_converter): <<>>
\* when undefined, else the one-element sequence of the text the
\* PositionOffsetTransformer was built from.  call is the last call with
\* its arguments and what it returned, before the text the last edit was
\* applied to, and hadConverter whether a converter existed when that edit
\* was applied.
MaxDocLen == 3
MaxDocLines == 2
DocTexts == UNION {Strings({"a", LF}, n) : n \in 0..MaxChars}
DocNewTexts == UNION {Strings({"a", LF}, n) : n \in 0..1}
DocPositions ==
    [line : 0..MaxDocLines, character : 0..MaxChars]

NoDocCall == [name |-> "none"]

\* new OffsetBasedTextDocument(initialValue)
offsetBasedTextDocument(initialValue) ==
    [op |-> "document",
     value |-> initialValue,
     converter |-> <<>>,
     call |-> NoDocCall,
     before |-> initialValue,
     hadConverter |-> FALSE]

\* the converter after `if (!this._converter) this._converter = new ...`
converterOf(d) == IF d.converter = <<>> THEN <<d.value>> ELSE d.converter

\* applyOffsetEdit(edit)
applyOffsetEditKeepingConverter(d, edit) ==
    [d EXCEPT !.value = apply(edit, d.value),
              !.before = d.value,
              !.hadConverter = d.converter # <<>>]

applyOffsetEdit(d, edit) ==
    [d EXCEPT !.value = apply(edit, d.value),
              !.converter = <<>>,
              !.before = d.value,
              !.hadConverter = d.converter # <<>>]

\* positionToOffset(position)
positionToOffset(d, position) ==
    [d EXCEPT !.converter = converterOf(d),
              !.call = [name |-> "positionToOffset",
                        position |-> position,
                        result |-> getOffset(converterOf(d)[1], position)]]

\* offsetToPosition(offset)
offsetToPosition(d, offset) ==
    [d EXCEPT !.converter = converterOf(d),
              !.call = [name |-> "offsetToPosition",
                        offset |-> offset,
                        result |-> getPosition(converterOf(d)[1], offset)]]

\* applyTextEdits(edits), for no edit or one edit: the ends of the range
\* become offsets of the text before the edit.
applyTextEdits(d, edits) ==
    IF edits = <<>>
    THEN [applyOffsetEdit(d, EmptyEdit) EXCEPT
            !.call = [name |-> "applyTextEdits", edits |-> edits]]
    ELSE
        LET e == edits[1]
            withStart == positionToOffset(d, e.range.start)
            withEnd == positionToOffset(withStart, e.range.end)
            lo == withStart.call.result
            hi == withEnd.call.result
        IN  [applyOffsetEdit(withEnd,
                    <<StringReplacement(lo, hi, e.newText)>>) EXCEPT
                !.call = [name |-> "applyTextEdits", edits |-> edits]]

InitDocument ==
    /\ OnlyTextDocument
    /\ \E initialValue \in DocTexts :
        textDocument = offsetBasedTextDocument(initialValue)

\* EditCollector.addEdits
DocApplyTextEdits ==
    /\ textDocument.op = "document"
    /\ \E edits \in {<<>>} \cup
            {<<[range |-> Range(r[1], r[2]), newText |-> t]>> :
                r \in {pq \in DocPositions \X DocPositions :
                          PosLE(pq[1], pq[2])},
                t \in DocNewTexts} :
        /\ textDocument' = applyTextEdits(textDocument, edits)
        /\ Len(textDocument'.value) <= MaxDocLen
    /\ UNCHANGED exceptTextDocument

DocApplyOffsetEdit ==
    /\ textDocument.op = "document"
    /\ \E lo \in 0..Len(textDocument.value),
          hi \in 0..Len(textDocument.value), t \in DocNewTexts :
        /\ lo <= hi
        /\ Len(textDocument.value) - (hi - lo) + Len(t) <= MaxDocLen
        /\ textDocument' =
            [applyOffsetEdit(textDocument,
                             <<StringReplacement(lo, hi, t)>>) EXCEPT
                !.call = [name |-> "applyOffsetEdit"]]
    /\ UNCHANGED exceptTextDocument

DocPositionToOffset ==
    /\ textDocument.op = "document"
    /\ \E position \in DocPositions :
        textDocument' = positionToOffset(textDocument, position)
    /\ UNCHANGED exceptTextDocument

DocOffsetToPosition ==
    /\ textDocument.op = "document"
    /\ \E offset \in 0..(Len(textDocument.value) + 1) :
        textDocument' = offsetToPosition(textDocument, offset)
    /\ UNCHANGED exceptTextDocument

NextDocument ==
    \/ DocApplyTextEdits
    \/ DocApplyOffsetEdit
    \/ DocPositionToOffset
    \/ DocOffsetToPosition

SpecDocument == InitDocument /\ [][NextDocument]_vars

----------------------------------------------------------------------------
(* Properties *)

Entries == altDoc.altCells

EntryCell(k) == Entries[k].altCell.cell

\* the offsets of the alt text taken by entry k: its first offset and the
\* offset after its last character
SpanStart(k) == Entries[k].startOffset
SpanEnd(k) == Entries[k].startOffset + Len(cellAltText(Entries[k].altCell))

\* the part of the span that is the cell's own text
BodyStart(k) == SpanStart(k) + Len(Entries[k].altCell.prefix)
BodyEnd(k) == BodyStart(k) + Len(Entries[k].altCell.code)

OffsetRanges(lo, hi) ==
    {r \in [start : lo..hi, endExclusive : lo..hi] : r.start <= r.endExclusive}

\* the last position of a document
DocEnd(lines) ==
    [line |-> Len(lines) - 1, character |-> Len(lines[Len(lines)])]

\* C1: every withCellChangesAndEdit call returns an edit that, applied to
\* the alt text of the snapshot it was called on, gives the alt text of the
\* snapshot it returns.
C1_EditEquivalenceContent ==
    last.op = "cellChanges" => last.applied = getAltText(altDoc)

\* a second line of a CR LF cell that is not the first cell was changed
C1_Witness ==
    /\ last.op = "cellChanges"
    /\ \E k \in 2..Len(Entries) :
          /\ last.changed = {EntryCell(k)}
          /\ Cells[EntryCell(k)].eol = "CRLF"
          /\ Len(docs[EntryCell(k)]) >= 2
          /\ docs[EntryCell(k)][2] = <<"x">>

\* C2: every withNotebookChangesAndEdit call whose changes address entries
\* of the snapshot returns an edit that, applied to the alt text of that
\* snapshot, gives the alt text of the snapshot it returns.
C2_EditEquivalenceStructural ==
    (last.op = "notebookChanges" /\ last.inRange /\ ~last.threw)
        => last.applied = getAltText(altDoc)

\* the round trip of one offset range r through entry k
RoundTripsAltHostAlt(k, r) ==
    LET res == fromAltOffsetRange(altDoc, r)
    IN  /\ ~res.undefined
        /\ Len(res.cells) = 1
        /\ res.cells[1].cell = EntryCell(k)
        /\ toAltOffsetRange(altDoc, EntryCell(k), <<res.cells[1].range>>) = <<r>>

\* C3 as stated: every offset range within one cell's span (marker line and
\* comment lines included) comes back from fromAltOffsetRange followed by
\* toAltOffsetRange.
C3_RoundTripWithinSpan ==
    \A k \in 1..Len(Entries) :
        \A r \in OffsetRanges(SpanStart(k), SpanEnd(k)) :
            RoundTripsAltHostAlt(k, r)

\* C3 as amended: every offset range within the cell's own text (after the
\* marker line and opening comment, before the closing comment) gives one
\* pair (cell, R) and toAltOffsetRange(cell, [R]) gives the range back.
C3_RoundTripWithinBody ==
    \A k \in 1..Len(Entries) :
        \A r \in OffsetRanges(BodyStart(k), BodyEnd(k)) :
            RoundTripsAltHostAlt(k, r)

\* an offset range over a line break in the text of a markup cell that
\* follows another cell comes back as a range of two lines of that cell
C3_Witness ==
    \E k \in 2..Len(Entries) :
        /\ CellKind(EntryCell(k)) = "Markup"
        /\ \E r \in OffsetRanges(BodyStart(k), BodyEnd(k)) :
              /\ RoundTripsAltHostAlt(k, r)
              /\ fromAltOffsetRange(altDoc, r).cells[1].range.start.line = 0
              /\ fromAltOffsetRange(altDoc, r).cells[1].range.end.line = 1

\* C4: every valid range R of the document of a cell of the snapshot comes
\* back from toAltOffsetRange followed by fromAltOffsetRange, as the one
\* pair (cell, R).
C4_RoundTripHostAltHost ==
    \A k \in 1..Len(Entries) :
        \A R \in Ranges(docs[EntryCell(k)]) :
            LET r == toAltOffsetRange(altDoc, EntryCell(k), <<R>>)[1]
                res == fromAltOffsetRange(altDoc, r)
            IN  /\ ~res.undefined
                /\ res.cells = <<[cell |-> EntryCell(k), range |-> R]>>

\* a range over both line breaks of a CR LF cell that follows another cell
\* comes back from the offsets it maps to
C4_Witness ==
    \E k \in 2..Len(Entries) :
        /\ Cells[EntryCell(k)].eol = "CRLF"
        /\ \E R \in Ranges(docs[EntryCell(k)]) :
              LET r == toAltOffsetRange(altDoc, EntryCell(k), <<R>>)[1]
              IN  /\ R.start.line = 0 /\ R.end.line = 2
                  /\ r.start >= BodyStart(k)
                  /\ fromAltOffsetRange(altDoc, r).cells
                         = <<[cell |-> EntryCell(k), range |-> R]>>

\* C5: the alt text never contains CR LF.
C5_NoCRLF == ~HasCRLF(getAltText(altDoc))

\* the cells of the notebook that are not markup cells, in notebook order
NonMarkupCells == SelectSeq(notebook, LAMBDA c : CellKind(c) # "Markup")

\* C6: a snapshot created with markup cells excluded has an entry for
\* exactly the non-markup cells of the notebook, in notebook order, and its
\* alt text is empty when the notebook has no non-markup cell.
C6_MarkupExclusion ==
    last.op = "create" =>
        /\ [k \in 1..Len(Entries) |-> EntryCell(k)] = NonMarkupCells
        /\ (NonMarkupCells = <<>> => getAltText(altDoc) = <<>>)

\* a notebook that starts with a markup cell and has a code cell
C6_Witness ==
    /\ last.op = "create"
    /\ Len(notebook) >= 2
    /\ CellKind(notebook[1]) = "Markup"
    /\ Len(Entries) >= 1

\* C7: for every valid range R of the document of a cell of the snapshot,
\* the alt text in toAltOffsetRange(cell, [R])[0] is the cell's text in R
\* with one LF per line break, and a range on the cell's first line starts
\* right after the cell's marker line, at the column of its start.
C7_TextCorrespondence ==
    \A k \in 1..Len(Entries) :
        \A R \in Ranges(docs[EntryCell(k)]) :
            LET c == EntryCell(k)
                r == toAltOffsetRange(altDoc, c, <<R>>)[1]
                afterMarker == SpanStart(k) + Len(generateCellTextMarker(c))
                               + Len(EOL)
            IN  /\ getAltTextInRange(altDoc, r)
                       = ReplaceEOL(RangeText(c, docs[c], R))
                /\ R.end.line = 0 =>
                       /\ r.start = afterMarker + R.start.character
                       /\ r.endExclusive = afterMarker + R.end.character

\* the position of a document at an offset of its text with one character
\* per line break
HostPosition(lines, offset) ==
    CHOOSE p \in Positions(lines) : NormOffsetAt(lines, p) = offset

\* the pairs C8 describes for a range from the text of entry i to the text
\* of a later entry j
Decomposition(i, j, r) ==
    [n \in 1..(j - i + 1) |->
        LET k == i + n - 1
            lines == docs[EntryCell(k)]
            first == [line |-> 0, character |-> 0]
        IN  [cell |-> EntryCell(k),
             range |->
                [start |-> IF k = i
                           THEN HostPosition(lines, r.start - BodyStart(i))
                           ELSE first,
                 end |-> IF k = j
                         THEN HostPosition(lines, r.endExclusive - BodyStart(j))
                         ELSE DocEnd(lines)]]]

\* C8: a range within one entry's span gives exactly one pair, of that
\* entry's cell; a range from the text of one entry to the text of a later
\* one gives one pair per entry from the first to the last, in order: the
\* first from the start of the range to the end of its cell, those between
\* the whole cell, the last from the start of its cell to the end of the
\* range.
C8_Decomposition ==
    /\ \A k \in 1..Len(Entries) :
          \A r \in OffsetRanges(SpanStart(k), SpanEnd(k)) :
              LET res == fromAltOffsetRange(altDoc, r)
              IN  /\ ~res.undefined
                  /\ Len(res.cells) = 1
                  /\ res.cells[1].cell = EntryCell(k)
    /\ \A i \in 1..Len(Entries) : \A j \in (i + 1)..Len(Entries) :
          \A s \in BodyStart(i)..BodyEnd(i) : \A e \in BodyStart(j)..BodyEnd(j) :
              LET r == [start |-> s, endExclusive |-> e]
                  res == fromAltOffsetRange(altDoc, r)
              IN  /\ ~res.undefined
                  /\ res.cells = Decomposition(i, j, r)

\* C9: a range that starts in the text of an entry's cell and ends at the
\* end of the alt text of that entry, or one further on the separator after
\* it, gives for the entry's cell a range that ends on the last line of the
\* cell's document, at a column within that line.
C9_BoundaryClamp ==
    \A k \in 1..Len(Entries) :
        \A s \in BodyStart(k)..BodyEnd(k) :
            \A e \in {SpanEnd(k)} \cup {SpanEnd(k) + 1 : n \in (k + 1)..Len(Entries)} :
                LET res == fromAltOffsetRange(altDoc, [start |-> s, endExclusive |-> e])
                    lines == docs[EntryCell(k)]
                IN  /\ ~res.undefined
                    /\ Len(res.cells) >= 1
                    /\ res.cells[1].cell = EntryCell(k)
                    /\ res.cells[1].range.end.line = Len(lines) - 1
                    /\ res.cells[1].range.end.character <= Len(lines[Len(lines)])

\* C10: every pair fromAltOffsetRange returns for a range of the alt text
\* holds a valid range of the document of its cell.
C10_ValidRanges ==
    \A r \in OffsetRanges(0, Len(getAltText(altDoc))) :
        LET res == fromAltOffsetRange(altDoc, r)
        IN  \A n \in 1..Len(res.cells) :
                res.cells[n].range \in Ranges(docs[res.cells[n].cell])

\* C11: in every snapshot the first entry starts at offset 0 and line 0,
\* every further entry starts at the start offset of the entry before it
\* plus the length of that entry's alt text plus the separator, and at its
\* start line plus that entry's line count; the alt text of the snapshot
\* holds the entry's alt text at the entry's start offset.
C11_PrefixSumIndex ==
    /\ Len(Entries) >= 1 =>
          Entries[1].startOffset = 0 /\ Entries[1].startLine = 0
    /\ \A i \in 1..(Len(Entries) - 1) :
          /\ Entries[i + 1].startOffset
                 = Entries[i].startOffset + Len(cellAltText(Entries[i].altCell))
                   + Len(EOL)
          /\ Entries[i + 1].startLine
                 = Entries[i].startLine + cellLineCount(Entries[i].altCell)
    /\ \A i \in 1..Len(Entries) :
          Substring(getAltText(altDoc), SpanStart(i), SpanEnd(i))
              = cellAltText(Entries[i].altCell)

\* a content change gave the first of several cells a second line
C11_Witness ==
    /\ last.op = "cellChanges"
    /\ Len(Entries) >= 2
    /\ last.changed = {EntryCell(1)}
    /\ Len(docs[EntryCell(1)]) = 2
    /\ Entries[2].startLine = 3

\* the cells with an entry in a snapshot
CellsOf(doc) == {doc.altCells[i].altCell.cell : i \in 1..Len(doc.altCells)}

NormRangeText(lines, R) ==
    Substring(NormText(lines), NormOffsetAt(lines, R.start),
              NormOffsetAt(lines, R.end))

\* C16: for one content change that replaces range R of a cell of the
\* snapshot by text t, the edit withCellChangesAndEdit returns is one
\* replacement, of the offsets toAltOffsetRange(cell, [R])[0] of the
\* snapshot, which hold the replaced text, by t with LF for every CR LF.
C16_ContentChangeEditShape ==
    (/\ last.op = "cellChanges"
     /\ Len(last.events) = 1
     /\ last.changed \subseteq CellsOf(last.this))
        => \A c \in last.changed :
              LET e == last.events[1]
                  span == toAltOffsetRange(last.this, c, <<e.range>>)[1]
              IN  /\ last.hasEdit
                  /\ last.edit = <<StringReplacement(span.start,
                                       span.endExclusive, ReplaceEOL(e.text))>>
                  /\ getAltTextInRange(last.this, span)
                         = NormRangeText(last.documents[c], e.range)

\* the line break of a CR LF cell that follows another cell was replaced by
\* a text with a CR LF
C16_Witness ==
    /\ last.op = "cellChanges"
    /\ Len(last.events) = 1
    /\ last.events[1].text = <<CR, LF>>
    /\ last.events[1].rangeLength = 2
    /\ \E k \in 2..Len(last.this.altCells) :
          /\ last.changed = {last.this.altCells[k].altCell.cell}
          /\ Cells[last.this.altCells[k].altCell.cell].eol = "CRLF"
    /\ Len(last.edit) = 1
    /\ last.edit[1].endExclusive - last.edit[1].start = 1

\* the offset ranges that do not lie within [0, n]: they end, or start and
\* end, up to two offsets past n
RangesBeyond(n) ==
    {r \in OffsetRanges(0, n + 2) : r.endExclusive > n}

\* C14: fromAltOffsetRange of a range that does not lie within the alt text,
\* and of any range when the snapshot has no entry, is the empty list, and
\* toAltOffsetRange and toAltRange of a cell without entry are empty lists.
C14_NoPartialResults ==
    /\ \A r \in RangesBeyond(Len(getAltText(altDoc))) :
          LET res == fromAltOffsetRange(altDoc, r)
          IN  ~res.undefined /\ res.cells = <<>>
    /\ Entries = <<>> =>
          LET res == fromAltOffsetRange(altDoc, [start |-> 0, endExclusive |-> 0])
          IN  ~res.undefined /\ res.cells = <<>>
    /\ \A c \in CellIds \ CellsOf(altDoc) : \A R \in Ranges(docs[c]) :
          /\ toAltOffsetRange(altDoc, c, <<R>>) = <<>>
          /\ toAltRange(altDoc, c, <<R>>) = <<>>

\* the ranges of a document's positions and of positions up to one line
\* and one column past them that are not all valid
MalformedRanges(lines) ==
    LET width == CHOOSE w \in 0..MaxChars :
                    /\ \A l \in 1..Len(lines) : Len(lines[l]) <= w
                    /\ \E l \in 1..Len(lines) : Len(lines[l]) = w
        positions == [line : 0..Len(lines), character : 0..(width + 1)]
    IN  {r \in [start : positions, end : positions] :
            PosLE(r.start, r.end) /\ r \notin Ranges(lines)}

\* C15: toAltOffsetRange of a range of a cell of the snapshot with a line or
\* a column past the cell's text gives offsets, start before or at end,
\* within the cell's own text in the alt text.
C15_MalformedRangesClamped ==
    \A k \in 1..Len(Entries) :
        \A R \in MalformedRanges(docs[EntryCell(k)]) :
            LET r == toAltOffsetRange(altDoc, EntryCell(k), <<R>>)[1]
            IN  /\ r.start <= r.endExclusive
                /\ BodyStart(k) <= r.start
                /\ r.endExclusive <= BodyEnd(k)

----------------------------------------------------------------------------
(* CrLfOffsetTranslator *)

\* the number of CR LF pairs of the text whose CR is at an offset smaller
\* than i, counted offset by offset
RECURSIVE CrLfPairsBefore(_, _)
CrLfPairsBefore(text, i) ==
    IF i <= 0 THEN 0
    ELSE CrLfPairsBefore(text, i - 1)
         + (IF i + 1 <= Len(text) /\ text[i] = CR /\ text[i + 1] = LF
            THEN 1 ELSE 0)

\* the texts of the translator's tests
AllCRLFsText ==
    <<"l", "i", "n", "e", "1", CR, LF, "l", "i", "n", "e", "2", CR, LF,
      "l", "i", "n", "e", "3">>
AllLFText ==
    <<"l", "i", "n", "e", "1", LF, "l", "i", "n", "e", "2", LF,
      "l", "i", "n", "e", "3">>
StartMiddleEndText ==
    <<CR, LF, "a", "b", "c", CR, LF, "d", "e", "f", CR, LF>>

\* what the tests expect of translate: <<text, offset, expected>>
TranslatorTests ==
    {<<AllLFText, i, i>> : i \in 0..Len(AllLFText)}
    \cup {<<AllCRLFsText, i, i>> : i \in 0..5}
    \cup {<<AllCRLFsText, 6, 5>>, <<AllCRLFsText, 7, 6>>,
          <<AllCRLFsText, 12, 11>>, <<AllCRLFsText, 13, 11>>,
          <<AllCRLFsText, 14, 12>>,
          <<AllCRLFsText, Len(AllCRLFsText), Len(AllCRLFsText) - 2>>}
    \cup {<<<<>>, 0, 0>>}
    \cup {<<<<CR, LF>>, 0, 0>>, <<<<CR, LF>>, 1, 0>>, <<<<CR, LF>>, 2, 1>>}
    \cup {<<<<LF>>, 0, 0>>, <<<<LF>>, 1, 1>>}
    \cup {<<<<CR>>, 0, 0>>, <<<<CR>>, 1, 1>>}
    \cup {<<StartMiddleEndText, 0, 0>>, <<StartMiddleEndText, 1, 0>>,
          <<StartMiddleEndText, 2, 1>>, <<StartMiddleEndText, 6, 4>>,
          <<StartMiddleEndText, 7, 5>>, <<StartMiddleEndText, 8, 6>>,
          <<StartMiddleEndText, 12, 9>>, <<StartMiddleEndText, 13, 10>>,
          <<StartMiddleEndText, 14, 11>>,
          <<StartMiddleEndText, Len(StartMiddleEndText),
            Len(StartMiddleEndText) - 3>>}

\* the offset is the offset of the LF of a CR LF pair of the text
AtLFOfPair(text, i) ==
    i >= 1 /\ i < Len(text) /\ text[i] = CR /\ text[i + 1] = LF

\* C17: translate answers every expectation of its tests, and for any text
\* and any offset i into it (0 <= i <= length, the queries made in any
\* order) translate(i) is i minus the number of CR LF pairs whose CR is at
\* an offset smaller than i; so the offset of the LF of a pair gives what
\* the offset of its CR gives, translate(length) is the length minus the
\* number of pairs, and a text with no CR LF pair is translated by the
\* identity.
C17_TranslateAsTested ==
    /\ \A t \in TranslatorTests : translate(t[1], t[2]) = t[3]
    /\ translator.queried =>
          LET text == translator.text
              i == translator.offset
              pairs == CrLfPairsBefore(text, Len(text))
          IN  /\ translator.result = i - CrLfPairsBefore(text, i)
              /\ AtLFOfPair(text, i) =>
                    translator.result = translate(text, i - 1)
              /\ i = Len(text) => translator.result = Len(text) - pairs
              /\ pairs = 0 => translator.result = i

\* the LF of the second CR LF pair of a text was queried
C17_Witness ==
    /\ translator.queried
    /\ AtLFOfPair(translator.text, translator.offset)
    /\ CrLfPairsBefore(translator.text, translator.offset - 1) = 1
    /\ translator.result = translator.offset - 2

\* the raw offset reached from the raw offset raw after n more characters
\* of the normalized text, a CR LF pair being one of them
RECURSIVE RawOffsetOfFrom(_, _, _)
RawOffsetOfFrom(text, raw, n) ==
    IF n = 0 THEN raw
    ELSE IF raw + 2 <= Len(text) /\ text[raw + 1] = CR /\ text[raw + 2] = LF
         THEN RawOffsetOfFrom(text, raw + 2, n - 1)
         ELSE RawOffsetOfFrom(text, raw + 1, n - 1)

\* the offset in the raw text of an offset in the normalized text: the
\* offset plus the CR LF pairs that lie entirely before the raw position
RawOffsetOf(text, o) == RawOffsetOfFrom(text, 0, o)

\* the length of the normalized text
NormalizedLength(text) == Len(text) - CrLfPairsBefore(text, Len(text))

\* C18 as stated: translate takes an offset o of the normalized text and
\* returns the offset of the raw text that corresponds to it, o plus the
\* number of CR LF pairs lying entirely before that raw position.
C18_NormalizedToRaw ==
    (translator.queried
     /\ translator.offset <= NormalizedLength(translator.text))
    => translator.result = RawOffsetOf(translator.text, translator.offset)

\* C18 amended: translate takes an offset r of the raw text and returns
\* the offset of the normalized text that corresponds to it: the raw offset
\* of the result is r, or the start of the pair when r is the offset of
\* the LF of a CR LF pair.
C18_RawToNormalized ==
    translator.queried =>
        /\ translator.result \in 0..NormalizedLength(translator.text)
        /\ RawOffsetOf(translator.text, translator.result) =
              IF AtLFOfPair(translator.text, translator.offset)
              THEN translator.offset - 1
              ELSE translator.offset

\* an offset past a CR LF pair was queried, not the LF of a pair
C18_Witness ==
    /\ translator.queried
    /\ ~AtLFOfPair(translator.text, translator.offset)
    /\ translator.result < translator.offset
    /\ translator.offset < Len(translator.text)

----------------------------------------------------------------------------
(* AsyncStreamUtils *)

\* the chunks, one after the other
RECURSIVE Concat(_)
Concat(chunks) ==
    IF chunks = <<>> THEN <<>> ELSE Head(chunks) \o Concat(Tail(chunks))

\* C19: buffer(stream, n) with n >= 1: every chunk yielded has between 1
\* and n items and every chunk but the last has exactly n; the chunks
\* yielded and the items held back are, in order, the items taken from the
\* source; when the stream has completed the chunks are, in order, exactly
\* the items of the source, and an empty source has yielded no chunk.
C19_BufferChunks ==
    (stream.op = "buffer" /\ stream.bufferSize >= 1) =>
        /\ \A k \in 1..Len(stream.yielded) :
              /\ Len(stream.yielded[k]) \in 1..stream.bufferSize
              /\ k < Len(stream.yielded) =>
                    Len(stream.yielded[k]) = stream.bufferSize
        /\ stream.status = "running" =>
              /\ Concat(stream.yielded) \o stream.buffer =
                    SubSeq(stream.source, 1, stream.pos)
              /\ \A k \in 1..Len(stream.yielded) :
                    Len(stream.yielded[k]) = stream.bufferSize
        /\ stream.status = "done" => Concat(stream.yielded) = stream.source
        /\ stream.source = <<>> => stream.yielded = <<>>

\* a source of five items has completed and buffer(stream, 2) has yielded
\* two chunks of two items and a last chunk of one
C19_Witness ==
    /\ stream.op = "buffer"
    /\ stream.bufferSize = 2
    /\ stream.status = "done"
    /\ ~stream.sourceThrows
    /\ Len(stream.source) = 5
    /\ Len(stream.yielded) = 3
    /\ Len(stream.yielded[3]) = 1

\* every attempt made so far has ended with an error that is no
\* CancellationError
EveryAttemptFailed(s) ==
    /\ Len(s.outcomes) = s.invocations
    /\ \A k \in 1..Len(s.outcomes) :
          s.outcomes[k] \in Errors \ {"CancellationError"}

\* C20: retry(factory, maxRetries) invokes the factory at most
\* maxRetries + 1 times; when the k-th attempt is the first to complete
\* without error the factory has been invoked exactly k times and the
\* stream has completed; and, no cancellation being requested and
\* continueOnError not being set, the stream fails only after exactly
\* maxRetries + 1 invocations that all failed, with the error of the last
\* of them, and does not end in another way when every attempt failed.
C20_RetryBoundsAttempts ==
    stream.op = "retry" =>
        /\ stream.invocations <= stream.maxRetries + 1
        /\ stream.attempt <= stream.invocations
        /\ \A k \in 1..Len(stream.outcomes) :
              stream.outcomes[k] = "ok" =>
                  /\ k = Len(stream.outcomes)
                  /\ stream.invocations = k
                  /\ stream.status = "done"
        /\ stream.status = "failed" =>
              /\ EveryAttemptFailed(stream)
              /\ stream.invocations = stream.maxRetries + 1
              /\ stream.error = stream.outcomes[Len(stream.outcomes)]
        /\ (/\ stream.status # "running"
            /\ ~stream.cancelled
            /\ ~stream.continueOnError
            /\ EveryAttemptFailed(stream))
           => stream.status = "failed"

\* retry(factory, 2) has failed with the error of the third attempt, which
\* is not the error of the attempts before
C20_Witness ==
    /\ stream.op = "retry"
    /\ stream.maxRetries = 2
    /\ stream.status = "failed"
    /\ stream.invocations = 3
    /\ stream.outcomes = <<"Error1", "Error1", "Error2">>
    /\ stream.error = "Error2"
    /\ stream.yielded > 0

\* what an item gives the consumer, by what the mapper and the handler did
\* for it: the mapped value, the handler's value, or nothing
YieldedFor(entry) ==
    IF entry.mapper = "ok" THEN <<mapped(entry.item)>>
    ELSE IF entry.handler = "value" THEN <<handled(entry.item)>>
    ELSE <<>>

\* the same, every call of the handler taken to give a value that is yielded
YieldedForAsStated(entry) ==
    IF entry.mapper = "ok" THEN <<mapped(entry.item)>>
    ELSE IF entry.handler # "none" THEN <<handled(entry.item)>>
    ELSE <<>>

\* the mapper threw an error for the item and the handler, if any, returned
MapperErrorSurvived(s, entry) ==
    /\ entry.mapper = "Error"
    /\ entry.handler \in {"value", "undefined"}
       \/ (entry.handler = "none" /\ s.continueOnError)

\* the mapper threw an error for the item, no handler is given and
\* continueOnError is not set
MapperErrorFatal(s, entry) ==
    entry.mapper = "Error" /\ ~s.onError /\ ~s.continueOnError

\* no cancellation: no CancellationError was thrown and the token is not
\* cancelled
NoCancellation(s) ==
    /\ ~s.cancelled
    /\ \A k \in 1..Len(s.log) : s.log[k].mapper # "CancellationError"

\* C21 as stated: the items are processed in order and each gives its
\* mapped value when the mapper succeeds, the value of the handler when the
\* mapper throws and a handler is given, nothing when the mapper throws and
\* continueOnError is set without a handler (no cancellation, the handler
\* itself not throwing).
C21_MapPerItemAsStated ==
    (/\ stream.op = "map"
     /\ NoCancellation(stream)
     /\ \A k \in 1..Len(stream.log) : stream.log[k].handler # "throws")
    => stream.yielded =
         Concat([k \in 1..Len(stream.log) |->
                    YieldedForAsStated(stream.log[k])])

\* C21 amended: the items are taken in source order; the values yielded
\* are, in order, the mapped value of each item whose mapper succeeded and
\* the handler's value of each item whose mapper threw and whose handler
\* returned a value other than undefined; an item whose mapper threw is
\* skipped when the handler returns undefined or when continueOnError is
\* set without a handler, and fails the stream with that error when there
\* is neither handler nor continueOnError; after a handled or skipped
\* failure the stream goes on to the following items.
C21_MapPerItem ==
    stream.op = "map" =>
        /\ \A k \in 1..Len(stream.log) : stream.log[k].item = stream.source[k]
        /\ stream.yielded =
              Concat([k \in 1..Len(stream.log) |-> YieldedFor(stream.log[k])])
        /\ \A k \in 1..Len(stream.log) :
              /\ MapperErrorFatal(stream, stream.log[k]) =>
                    /\ k = Len(stream.log)
                    /\ stream.status = "failed"
                    /\ stream.error = "Error"
              /\ (MapperErrorSurvived(stream, stream.log[k])
                  /\ k = Len(stream.log)
                  /\ k < Len(stream.source))
                 => stream.status \in {"running", "cancelled"}
        /\ (stream.status = "done" /\ NoCancellation(stream)
            /\ \A k \in 1..Len(stream.log) : stream.log[k].handler # "throws")
           => Len(stream.log) = Len(stream.source)

\* a mapped stream has completed: the mapper threw for the first item and
\* the handler gave a value, threw for the second and the handler returned
\* undefined, and succeeded for the third
C21_Witness ==
    /\ stream.op = "map"
    /\ stream.status = "done"
    /\ Len(stream.log) = 3
    /\ stream.log[1].mapper = "Error" /\ stream.log[1].handler = "value"
    /\ stream.log[2].mapper = "Error" /\ stream.log[2].handler = "undefined"
    /\ stream.log[3].mapper = "ok"
    /\ stream.yielded = <<handled(1), mapped(3)>>

\* C22: once cancellation of the effective token has been requested the
\* operation yields nothing further and does not complete normally: its
\* iteration ends with a CancellationError.
C22_CancellationEndsStream ==
    (stream.op # "none" /\ stream.cancelled) =>
        /\ stream.yielded = stream.cancelledAt
        /\ stream.status \in {"running", "cancelled"}

----------------------------------------------------------------------------
(* TerminalServiceImpl *)

\* C23: when getAllTerminals returns, every terminal of the window appears
\* exactly once in the result, in the window's order; a terminal whose
\* process has a Copilot association has the id of that association, and
\* any other terminal has the id user-terminal-<pid> and is recorded in the
\* workspace state as not a Copilot terminal.
C23_AllTerminalsListed ==
    (terminalService.op = "terminals" /\ terminalService.called) =>
        /\ Len(terminalService.result) = Len(terminalService.listed)
        /\ \A i \in 1..Len(terminalService.result) :
              LET processId == terminalService.listed[i]
                  association == terminalService.stored[processId.pid]
              IN  /\ terminalService.result[i].terminal = i
                  /\ processId.kind = "number"
                  /\ association.present
                  /\ terminalService.result[i].id = association.id
                  /\ ~association.isCopilotTerminal =>
                        association = UserAssociation(processId.pid)

----------------------------------------------------------------------------
(* Incremental updates *)

\* the index of a snapshot: the start line and start offset of every entry
IndexOf(doc) ==
    [k \in 1..Len(doc.altCells) |->
        [cell |-> doc.altCells[k].altCell.cell,
         startLine |-> doc.altCells[k].startLine,
         startOffset |-> doc.altCells[k].startOffset]]

\* C24: for a notebook of code cells, after any sequence of content changes
\* and structural changes the snapshot reached by the incremental calls has
\* the alt text and the per-cell (startLine, startOffset) index of a
\* snapshot created from the notebook as it is now.
C24_IncrementalEqualsRebuild ==
    /\ getAltText(altDoc) = getAltText(withoutMDCells(notebook, docs))
    /\ IndexOf(altDoc) = IndexOf(withoutMDCells(notebook, docs))

\* a structural change has just been applied to a snapshot of at least two
\* cells, one of them holding text of two lines
C24_Witness ==
    /\ last.op = "notebookChanges"
    /\ Len(altDoc.altCells) >= 2
    /\ altDoc.altCells[2].startLine >= 3
    /\ \E c \in CellsOf(altDoc) : Len(docs[c]) = 2

----------------------------------------------------------------------------
(* Markup cells and structural changes *)

\* C25: a snapshot built with markup cells excluded holds no markup cell
\* after any sequence of structural changes, changes that add markup cells
\* included.
C25_MarkupExclusionSurvives ==
    altDoc.excludeMarkdownCells =>
        \A k \in 1..Len(altDoc.altCells) :
            CellKind(altDoc.altCells[k].altCell.cell) # "Markup"

\* C26: every replacement of the edit returned by withNotebookChangesAndEdit
\* has a span [start, end) with 0 <= start <= end <= the length of the alt
\* text of the snapshot the call was made on.
C26_StructuralEditInsideOldText ==
    (last.op = "notebookChanges" /\ ~last.threw /\ last.hasEdit) =>
        \A i \in 1..Len(last.edit) :
            /\ 0 <= last.edit[i].start
            /\ last.edit[i].start <= last.edit[i].endExclusive
            /\ last.edit[i].endExclusive <= Len(getAltText(last.this))

----------------------------------------------------------------------------
(* Reuse of the projections of unchanged cells *)

\* C27: the snapshot returned by withCellChanges for a cell's document has
\* as many entries as the receiver; every entry of another cell holds the
\* projection the receiver holds (the same in every field, the text its
\* translator was built from included), and every entry before the changed
\* cell keeps its start line and start offset.
C27_UnchangedCellsReused ==
    last.op = "cellChanges" =>
        /\ Len(last.doc.altCells) = Len(last.this.altCells)
        /\ \A i \in 1..Len(last.this.altCells) :
            /\ last.this.altCells[i].altCell.cell \notin last.changed =>
                    last.doc.altCells[i].altCell = last.this.altCells[i].altCell
            /\ (\A j \in 1..i :
                    last.this.altCells[j].altCell.cell \notin last.changed) =>
                    /\ last.doc.altCells[i].startLine
                         = last.this.altCells[i].startLine
                    /\ last.doc.altCells[i].startOffset
                         = last.this.altCells[i].startOffset

\* the second of two cells has been changed: its projection is a new one
\* with a longer text, and the first entry is the one the receiver held
C27_Witness ==
    /\ last.op = "cellChanges"
    /\ Len(last.this.altCells) = 2
    /\ last.changed = {last.this.altCells[2].altCell.cell}
    /\ last.this.altCells[1].altCell.cell \notin last.changed
    /\ Len(last.doc.altCells[2].altCell.code)
         > Len(last.this.altCells[2].altCell.code)

----------------------------------------------------------------------------
(* The lines a projection adds before a cell's own text *)

\* the lines of the prefix fromNotebookCell builds: the marker line, and for
\* a markup cell the line of the opening block comment
PrefixLines(c) == IF CellKind(c) = "Markup" THEN 2 ELSE 1

\* C28: for every cell projection, toAltRange adds to the start line and the
\* end line of a range of the cell's document the number of lines of the
\* prefix (1 for a code cell, 2 for a markup cell) and keeps both columns,
\* the line it names being the line of the cell in the projection's text;
\* fromAltOffsetRange takes the same number from the lines of the positions
\* of the two offsets and returns no negative line.
C28_FixedPrefixLineDelta ==
    \A k \in 1..Len(altDoc.altCells) :
        LET ac == altDoc.altCells[k].altCell
            delta == PrefixLines(ac.cell)
            cellText == cellAltText(ac)
        IN  /\ \A R \in Ranges(docs[ac.cell]) :
                LET A == cellToAltRange(ac, R)
                IN  /\ A.start.line = R.start.line + delta
                    /\ A.end.line = R.end.line + delta
                    /\ A.start.character = R.start.character
                    /\ A.end.character = R.end.character
                    /\ getLineLength(cellText, A.start.line)
                         = Len(docs[ac.cell][R.start.line + 1])
            /\ \A r \in OffsetRanges(0, Len(cellText)) :
                LET R == cellFromAltOffsetRange(ac, r)
                    startLine == getPosition(cellText, r.start).line
                    endLine == getPosition(cellText, r.endExclusive).line
                IN  /\ R.start.line >= 0 /\ R.end.line >= 0
                    /\ R.start.line = Max(startLine - delta, 0)
                    /\ R.end.line = Max(endLine - delta, 0)

\* the snapshot holds a code cell and a markup cell, one of them with text
\* of two lines, and a range that starts in the marker line of a cell
C28_Witness ==
    /\ \E k \in 1..Len(altDoc.altCells) :
            /\ CellKind(altDoc.altCells[k].altCell.cell) = "Markup"
            /\ cellToAltRange(altDoc.altCells[k].altCell,
                    Range(DocEnd(docs[altDoc.altCells[k].altCell.cell]),
                          DocEnd(docs[altDoc.altCells[k].altCell.cell]))).end.line >= 2
    /\ \E k \in 1..Len(altDoc.altCells) :
            /\ CellKind(altDoc.altCells[k].altCell.cell) = "Code"
            /\ Len(docs[altDoc.altCells[k].altCell.cell]) = 2
            /\ cellFromAltOffsetRange(altDoc.altCells[k].altCell,
                    [start |-> 1, endExclusive |-> 4]).start.line = 0
            /\ cellFromAltOffsetRange(altDoc.altCells[k].altCell,
                    [start |-> 1, endExclusive |-> 4]).end.line = 1

----------------------------------------------------------------------------
(* Structural changes whose range does not fit the entries *)

\* C29: withNotebookChangesAndEdit given a change whose range of removed
\* cells starts or ends beyond the number of entries completes without
\* throwing and returns a snapshot and an edit.
C29_OutOfRangeChangeDoesNotThrow ==
    (last.op = "notebookChanges" /\ ~last.inRange) => ~last.threw

----------------------------------------------------------------------------
(* The two translations of a range of a cell's document *)

\* a position of a text: a line of the text and a column within that line
IsPositionOf(str, pos) ==
    /\ pos.line \in 0..(getLineCount(str) - 1)
    /\ pos.character \in 0..getLineLength(str, pos.line)

\* C30: for every cell of a snapshot and every range R of the cell's
\* document, the start and the end of toAltRange(cell, [R]) are positions of
\* the alt text at the offsets where toAltOffsetRange(cell, [R]) starts and
\* ends, and a content change of R translated by
\* toAltCellTextDocumentContentChangeEvents has a range and a rangeOffset and
\* rangeLength of the same span.
C30_ForwardTranslationsAgree ==
    \A k \in 1..Len(altDoc.altCells) :
        LET c == altDoc.altCells[k].altCell.cell
            text == getAltText(altDoc)
        IN  \A R \in Ranges(docs[c]) :
                LET A == toAltRange(altDoc, c, <<R>>)[1]
                    O == toAltOffsetRange(altDoc, c, <<R>>)[1]
                    e == toAltCellTextDocumentContentChangeEvents(altDoc, c,
                             <<ContentChange(c, docs[c], R, <<>>)>>)[1]
                IN  /\ IsPositionOf(text, A.start)
                    /\ IsPositionOf(text, A.end)
                    /\ getOffset(text, A.start) = O.start
                    /\ getOffset(text, A.end) = O.endExclusive
                    /\ getOffset(text, e.range.start) = e.rangeOffset
                    /\ getOffset(text, e.range.end)
                         = e.rangeOffset + e.rangeLength

\* after a content change, a range over the line break of a cell of two
\* lines that follows another cell: it starts at least two lines down the
\* alt text
C30_Witness ==
    /\ last.op = "cellChanges"
    /\ \E k \in 2..Len(altDoc.altCells) :
        LET c == altDoc.altCells[k].altCell.cell
        IN  /\ Len(docs[c]) = 2
            /\ \E R \in Ranges(docs[c]) :
                  /\ R.start.line = 0 /\ R.end.line = 1
                  /\ toAltRange(altDoc, c, <<R>>)[1].start.line >= 2
                  /\ toAltOffsetRange(altDoc, c, <<R>>)[1].start >= 3
                  /\ getOffset(getAltText(altDoc),
                               toAltRange(altDoc, c, <<R>>)[1].end)
                       = toAltOffsetRange(altDoc, c, <<R>>)[1].endExclusive

----------------------------------------------------------------------------
(* AsyncStreamUtils.retry: the items of failed attempts *)

\* C31: when an attempt of retry completes without error, the items the
\* consumer has been given are the items of that attempt and no others:
\* what a failed attempt delivered before it failed is not among them.
C31_RetryYieldsOneRun ==
    (/\ stream.op = "retry"
     /\ stream.status = "done"
     /\ stream.outcomes # <<>>
     /\ stream.outcomes[Len(stream.outcomes)] = "ok")
        => stream.yielded = stream.items

----------------------------------------------------------------------------
(* AsyncStreamUtils.debounce: the last item *)

\* the items of a sequence are items of the source, in the source's order
InSourceOrder(yielded, source) ==
    /\ \A i \in 1..Len(yielded) : \E j \in 1..Len(source) : source[j] = yielded[i]
    /\ \A i \in 1..(Len(yielded) - 1) : yielded[i] < yielded[i + 1]

\* C32: debounce yields only items of the source, in the source's order,
\* and when it completes for a source that delivered at least one item and
\* then completed, no cancellation being requested, the last item it has
\* yielded is the last item of the source, however the timer and the reads
\* of the source interleave.
C32_DebounceKeepsFinalItem ==
    stream.op = "debounce" =>
        /\ InSourceOrder(stream.yielded, stream.source)
        /\ (/\ stream.status = "done"
            /\ ~stream.cancelled
            /\ ~stream.sourceThrows
            /\ stream.source # <<>>)
           => /\ stream.yielded # <<>>
              /\ stream.yielded[Len(stream.yielded)]
                   = stream.source[Len(stream.source)]

----------------------------------------------------------------------------
(* TerminalServiceImpl: overlapping calls *)

\* C33: when no call is in progress, every association that
\* associateTerminalWithSession stored while a getAllTerminals call was in
\* progress, and that has not been removed or replaced since, is in the
\* workspace state with its session and isCopilotTerminal = true.
C33_AssociationsSurviveInterleaving ==
    (/\ terminalService.op = "calls"
     /\ terminalService.all.pc = "idle"
     /\ terminalService.assoc.pc = "idle")
        => \A pid \in Pids :
              terminalService.kept[pid] # "none" =>
                  /\ terminalService.hasStored
                  /\ terminalService.associations[pid]
                       = CopilotAssociation(terminalService.kept[pid],
                                            CopilotId(pid))

----------------------------------------------------------------------------
(* CodexClient: one process at a time *)

\* C35: a CodexClient runs at most one Codex process; a start() call that
\* began while a process was running, or while another start() had not
\* returned, does not return normally; and every submission that was
\* written went to a running process.
C35_AtMostOneProcess ==
    codex.op = "client" =>
        /\ Cardinality(codex.running) <= 1
        /\ \A c \in StartCalls :
            codex.starts[c].busy => codex.starts[c].pc # "returned"
        /\ codex.written # <<>> => codex.written[2]

----------------------------------------------------------------------------
(* CodexAgentManager.handleRequest: termination *)

\* C34: a handleRequest call that has sent the user input and waits for the
\* response eventually returns, whatever Codex answers and whether or not
\* the request is cancelled.
C34_RequestTerminates ==
    \A r \in Requests :
        (codex.op = "request" /\ codex.requests[r].pc = "waiting")
            ~> (codex.requests[r].pc \in {"returned", "failed"})

----------------------------------------------------------------------------
(* LanguageModelServer: the nonce *)

\* The routes that list the language models or send a request to one.
ModelRoute(req) ==
    \/ req.method = "GET" /\ req.url = "/models"
    \/ /\ req.method = "POST"
       /\ \/ startsWithChatCompletions(req.url)
          \/ req.url \in {"/anthropic-chat", "/"}

\* C36: on a route that can reach a language model, a request whose nonce
\* is missing or wrong is answered 401, and no model is listed or called.
C36_NonceGuardsModels ==
    (/\ codex.op = "server" /\ codex.handled
     /\ ModelRoute(codex.req)
     /\ codex.req.nonce # ServerNonce)
        => /\ codex.res.status = 401
           /\ ~codex.res.selected
           /\ codex.res.called = ""

----------------------------------------------------------------------------
(* OffsetBasedTextDocument: the cached converter *)

\* C37: the converter is absent or was built from the current text, and
\* what positionToOffset and offsetToPosition return is what a converter
\* of the current text returns; the ranges of applyTextEdits are read in
\* the text the edit is applied to.
C37_ConverterNeverStale ==
    textDocument.op = "document" =>
        LET d == textDocument
        IN  /\ d.converter = <<>> \/ d.converter = <<d.value>>
            /\ d.call.name = "positionToOffset" =>
                d.call.result = getOffset(d.value, d.call.position)
            /\ d.call.name = "offsetToPosition" =>
                d.call.result = getPosition(d.value, d.call.offset)
            /\ (d.call.name = "applyTextEdits" /\ d.call.edits # <<>>) =>
                LET e == d.call.edits[1]
                IN  d.value =
                        apply(<<StringReplacement(
                                    getOffset(d.before, e.range.start),
                                    getOffset(d.before, e.range.end),
                                    e.newText)>>, d.before)

\* A position is asked for after an edit that was applied while a
\* converter existed, and its offset in the new text is not its offset in
\* the text before the edit.
C37_Witness ==
    /\ textDocument.op = "document"
    /\ textDocument.call.name = "positionToOffset"
    /\ textDocument.hadConverter
    /\ textDocument.before # textDocument.value
    /\ getOffset(textDocument.before, textDocument.call.position)
        # getOffset(textDocument.value, textDocument.call.position)
    /\ textDocument.call.result
        = getOffset(textDocument.value, textDocument.call.position)

====
